---- MODULE Spec2Model ----
(***************************************************************************)
(* Model of the maintenance scripts of simple-python-boilerplate:          *)
(*   - mkdocs-hooks/repo_links.py   (link-rewriting MkDocs hook)           *)
(*   - scripts/archive_todos.py     (TODO archiving)                       *)
(*   - scripts/workflow_versions.py (GitHub Actions SHA/tag reconciliation)*)
(*                                                                         *)
(* Text is modelled as a sequence of one-character strings, so that the    *)
(* regular expressions of the scripts are modelled by what they match,     *)
(* character by character.  NUL stands for the character \x00 and BQ for  *)
(* the backquote, which a TLA+ string cannot hold.                         *)
(***************************************************************************)
EXTENDS Integers, Sequences, FiniteSets, TLC

VARIABLES
    \* ---- repo_links.on_page_markdown ----
    lk_pc,            \* position inside on_page_markdown
    lk_input,         \* the markdown argument as passed by MkDocs
    lk_page_dir,      \* posixpath.dirname(page.file.src_path)
    lk_repo_url,      \* config["repo_url"]
    lk_markdown,      \* the local variable `markdown`
    lk_placeholders,  \* the dict `placeholders`, in insertion order
    lk_rewritten,     \* targets for which _resolve_and_rewrite returned a URL
    \* ---- workflow_versions: one call into the tag resolver ----
    gh,               \* [pc, api, args, out]: responses, arguments, outcome
    \* ---- workflow_versions: GitHub requests over time ----
    ch,               \* [pc, ttl, now, cache, log]
    \* ---- workflow_versions: scan_workflows / update_comments on one file ----
    wf,               \* [pc, lines, rows, ...]
    \* ---- archive_todos ----
    td,               \* [pc, todo, archive, backups, ret, ...]
    \* ---- bootstrap, doctor, env_doctor, repo_doctor, apply_labels ----
    sc                \* [pc, ...]: one run of one of these scripts

vars == <<lk_pc, lk_input, lk_page_dir, lk_repo_url, lk_markdown,
          lk_placeholders, lk_rewritten, gh, ch, wf, td, sc>>

\* a component that takes no part in the specification at hand
Off == [pc |-> "off"]

lkVars == <<lk_pc, lk_input, lk_page_dir, lk_repo_url, lk_markdown,
            lk_placeholders, lk_rewritten>>

(***************************************************************************)
(* Generic text helpers (Python str operations).                           *)
(***************************************************************************)
NUL == "NUL"

BQ == "BQ"

Min(S) == CHOOSE x \in S : \A y \in S : x <= y

Max(S) == CHOOSE x \in S : \A y \in S : x >= y

\* t[i:i+len(p)] == p   (1-based i)
StartsWithAt(t, i, p) ==
    /\ i >= 1
    /\ i + Len(p) - 1 <= Len(t)
    /\ \A k \in 1..Len(p) : t[i + k - 1] = p[k]

\* str.startswith
StartsWith(t, p) == StartsWithAt(t, 1, p)

\* str.endswith
EndsWith(t, p) == Len(p) <= Len(t) /\ StartsWithAt(t, Len(t) - Len(p) + 1, p)

\* str.find(p, i): first index >= i where p occurs, 0 when there is none
FindFrom(t, i, p) ==
    LET S == {j \in i..Len(t) : StartsWithAt(t, j, p)}
    IN IF S = {} THEN 0 ELSE Min(S)

\* `p in t`
Contains(t, p) == FindFrom(t, 1, p) # 0

\* first index >= i whose character is in the set cs, 0 when there is none
FindCharFrom(t, i, cs) ==
    LET S == {j \in i..Len(t) : t[j] \in cs}
    IN IF S = {} THEN 0 ELSE Min(S)

\* first index >= i whose character is NOT in cs; Len(t)+1 when all are
SkipChars(t, i, cs) ==
    LET S == {j \in i..Len(t) : t[j] \notin cs}
    IN IF S = {} THEN Len(t) + 1 ELSE Min(S)

\* t[i-1:j] as a slice that may be empty
Slice(t, i, j) == IF j < i THEN <<>> ELSE SubSeq(t, i, j)

\* str.replace(key, new): all non-overlapping occurrences, left to right
ReplaceAll(t, key, new) ==
    LET f[i \in 1..(Len(t) + 1)] ==
            IF i > Len(t) THEN <<>>
            ELSE IF StartsWithAt(t, i, key)
                 THEN new \o f[i + Len(key)]
                 ELSE <<t[i]>> \o f[i + 1]
    IN IF Len(key) = 0 THEN t ELSE f[1]

\* str.rstrip(cs)
RStrip(t, cs) ==
    LET S == {j \in 1..Len(t) : t[j] \notin cs}
    IN IF S = {} THEN <<>> ELSE SubSeq(t, 1, Max(S))

\* str.split(sep) for a one-character separator
SplitOn(t, sep) ==
    LET f[i \in 1..(Len(t) + 2)] ==
            IF i > Len(t) + 1 THEN <<>>
            ELSE LET j == FindCharFrom(t, i, {sep})
                 IN IF j = 0 THEN <<Slice(t, i, Len(t))>>
                    ELSE <<Slice(t, i, j - 1)>> \o f[j + 1]
    IN f[1]

\* sep.join(parts)
JoinWith(parts, sep) ==
    LET f[i \in 1..(Len(parts) + 1)] ==
            IF i > Len(parts) THEN <<>>
            ELSE IF i = Len(parts) THEN parts[i]
            ELSE parts[i] \o <<sep>> \o f[i + 1]
    IN f[1]

\* regex classes.  A character is a one-character string; a character above
\* U+00FF is written by its escape, "\\u0661" for U+0661 and "\\U0001d7ce"
\* for U+1D7CE.
\* \s and str.isspace(): the Unicode whitespace
WS ==
   {
     "\t", "\n", "", "\f", "\r", "", "", "", "", " ", "", " ", "\\u1680", "\\u2000",
     "\\u2001", "\\u2002", "\\u2003", "\\u2004", "\\u2005", "\\u2006", "\\u2007", "\\u2008",
     "\\u2009", "\\u200a", "\\u2028", "\\u2029", "\\u202f", "\\u205f", "\\u3000" }

\* \d: the Unicode decimal digits (category Nd)
Digit ==
   {"0", "1", "2", "3", "4", "5", "6", "7", "8", "9",
     "\\u0660", "\\u0661", "\\u0662", "\\u0663", "\\u0664", "\\u0665", "\\u0666", "\\u0667",
     "\\u0668", "\\u0669", "\\u06f0", "\\u06f1", "\\u06f2", "\\u06f3", "\\u06f4", "\\u06f5",
     "\\u06f6", "\\u06f7", "\\u06f8", "\\u06f9", "\\u07c0", "\\u07c1", "\\u07c2", "\\u07c3",
     "\\u07c4", "\\u07c5", "\\u07c6", "\\u07c7", "\\u07c8", "\\u07c9", "\\u0966", "\\u0967",
     "\\u0968", "\\u0969", "\\u096a", "\\u096b", "\\u096c", "\\u096d", "\\u096e", "\\u096f",
     "\\u09e6", "\\u09e7", "\\u09e8", "\\u09e9", "\\u09ea", "\\u09eb", "\\u09ec", "\\u09ed",
     "\\u09ee", "\\u09ef", "\\u0a66", "\\u0a67", "\\u0a68", "\\u0a69", "\\u0a6a", "\\u0a6b",
     "\\u0a6c", "\\u0a6d", "\\u0a6e", "\\u0a6f", "\\u0ae6", "\\u0ae7", "\\u0ae8", "\\u0ae9",
     "\\u0aea", "\\u0aeb", "\\u0aec", "\\u0aed", "\\u0aee", "\\u0aef", "\\u0b66", "\\u0b67",
     "\\u0b68", "\\u0b69", "\\u0b6a", "\\u0b6b", "\\u0b6c", "\\u0b6d", "\\u0b6e", "\\u0b6f",
     "\\u0be6", "\\u0be7", "\\u0be8", "\\u0be9", "\\u0bea", "\\u0beb", "\\u0bec", "\\u0bed",
     "\\u0bee", "\\u0bef", "\\u0c66", "\\u0c67", "\\u0c68", "\\u0c69", "\\u0c6a", "\\u0c6b",
     "\\u0c6c", "\\u0c6d", "\\u0c6e", "\\u0c6f", "\\u0ce6", "\\u0ce7", "\\u0ce8", "\\u0ce9",
     "\\u0cea", "\\u0ceb", "\\u0cec", "\\u0ced", "\\u0cee", "\\u0cef", "\\u0d66", "\\u0d67",
     "\\u0d68", "\\u0d69", "\\u0d6a", "\\u0d6b", "\\u0d6c", "\\u0d6d", "\\u0d6e", "\\u0d6f",
     "\\u0de6", "\\u0de7", "\\u0de8", "\\u0de9", "\\u0dea", "\\u0deb", "\\u0dec", "\\u0ded",
     "\\u0dee", "\\u0def", "\\u0e50", "\\u0e51", "\\u0e52", "\\u0e53", "\\u0e54", "\\u0e55",
     "\\u0e56", "\\u0e57", "\\u0e58", "\\u0e59", "\\u0ed0", "\\u0ed1", "\\u0ed2", "\\u0ed3",
     "\\u0ed4", "\\u0ed5", "\\u0ed6", "\\u0ed7", "\\u0ed8", "\\u0ed9", "\\u0f20", "\\u0f21",
     "\\u0f22", "\\u0f23", "\\u0f24", "\\u0f25", "\\u0f26", "\\u0f27", "\\u0f28", "\\u0f29",
     "\\u1040", "\\u1041", "\\u1042", "\\u1043", "\\u1044", "\\u1045", "\\u1046", "\\u1047",
     "\\u1048", "\\u1049", "\\u1090", "\\u1091", "\\u1092", "\\u1093", "\\u1094", "\\u1095",
     "\\u1096", "\\u1097", "\\u1098", "\\u1099", "\\u17e0", "\\u17e1", "\\u17e2", "\\u17e3",
     "\\u17e4", "\\u17e5", "\\u17e6", "\\u17e7", "\\u17e8", "\\u17e9", "\\u1810", "\\u1811",
     "\\u1812", "\\u1813", "\\u1814", "\\u1815", "\\u1816", "\\u1817", "\\u1818", "\\u1819",
     "\\u1946", "\\u1947", "\\u1948", "\\u1949", "\\u194a", "\\u194b", "\\u194c", "\\u194d",
     "\\u194e", "\\u194f", "\\u19d0", "\\u19d1", "\\u19d2", "\\u19d3", "\\u19d4", "\\u19d5",
     "\\u19d6", "\\u19d7", "\\u19d8", "\\u19d9", "\\u1a80", "\\u1a81", "\\u1a82", "\\u1a83",
     "\\u1a84", "\\u1a85", "\\u1a86", "\\u1a87", "\\u1a88", "\\u1a89", "\\u1a90", "\\u1a91",
     "\\u1a92", "\\u1a93", "\\u1a94", "\\u1a95", "\\u1a96", "\\u1a97", "\\u1a98", "\\u1a99",
     "\\u1b50", "\\u1b51", "\\u1b52", "\\u1b53", "\\u1b54", "\\u1b55", "\\u1b56", "\\u1b57",
     "\\u1b58", "\\u1b59", "\\u1bb0", "\\u1bb1", "\\u1bb2", "\\u1bb3", "\\u1bb4", "\\u1bb5",
     "\\u1bb6", "\\u1bb7", "\\u1bb8", "\\u1bb9", "\\u1c40", "\\u1c41", "\\u1c42", "\\u1c43",
     "\\u1c44", "\\u1c45", "\\u1c46", "\\u1c47", "\\u1c48", "\\u1c49", "\\u1c50", "\\u1c51",
     "\\u1c52", "\\u1c53", "\\u1c54", "\\u1c55", "\\u1c56", "\\u1c57", "\\u1c58", "\\u1c59",
     "\\ua620", "\\ua621", "\\ua622", "\\ua623", "\\ua624", "\\ua625", "\\ua626", "\\ua627",
     "\\ua628", "\\ua629", "\\ua8d0", "\\ua8d1", "\\ua8d2", "\\ua8d3", "\\ua8d4", "\\ua8d5",
     "\\ua8d6", "\\ua8d7", "\\ua8d8", "\\ua8d9", "\\ua900", "\\ua901", "\\ua902", "\\ua903",
     "\\ua904", "\\ua905", "\\ua906", "\\ua907", "\\ua908", "\\ua909", "\\ua9d0", "\\ua9d1",
     "\\ua9d2", "\\ua9d3", "\\ua9d4", "\\ua9d5", "\\ua9d6", "\\ua9d7", "\\ua9d8", "\\ua9d9",
     "\\ua9f0", "\\ua9f1", "\\ua9f2", "\\ua9f3", "\\ua9f4", "\\ua9f5", "\\ua9f6", "\\ua9f7",
     "\\ua9f8", "\\ua9f9", "\\uaa50", "\\uaa51", "\\uaa52", "\\uaa53", "\\uaa54", "\\uaa55",
     "\\uaa56", "\\uaa57", "\\uaa58", "\\uaa59", "\\uabf0", "\\uabf1", "\\uabf2", "\\uabf3",
     "\\uabf4", "\\uabf5", "\\uabf6", "\\uabf7", "\\uabf8", "\\uabf9", "\\uff10", "\\uff11",
     "\\uff12", "\\uff13", "\\uff14", "\\uff15", "\\uff16", "\\uff17", "\\uff18", "\\uff19",
     "\\U000104a0", "\\U000104a1", "\\U000104a2", "\\U000104a3", "\\U000104a4", "\\U000104a5",
     "\\U000104a6", "\\U000104a7", "\\U000104a8", "\\U000104a9", "\\U00010d30", "\\U00010d31",
     "\\U00010d32", "\\U00010d33", "\\U00010d34", "\\U00010d35", "\\U00010d36", "\\U00010d37",
     "\\U00010d38", "\\U00010d39", "\\U00011066", "\\U00011067", "\\U00011068", "\\U00011069",
     "\\U0001106a", "\\U0001106b", "\\U0001106c", "\\U0001106d", "\\U0001106e", "\\U0001106f",
     "\\U000110f0", "\\U000110f1", "\\U000110f2", "\\U000110f3", "\\U000110f4", "\\U000110f5",
     "\\U000110f6", "\\U000110f7", "\\U000110f8", "\\U000110f9", "\\U00011136", "\\U00011137",
     "\\U00011138", "\\U00011139", "\\U0001113a", "\\U0001113b", "\\U0001113c", "\\U0001113d",
     "\\U0001113e", "\\U0001113f", "\\U000111d0", "\\U000111d1", "\\U000111d2", "\\U000111d3",
     "\\U000111d4", "\\U000111d5", "\\U000111d6", "\\U000111d7", "\\U000111d8", "\\U000111d9",
     "\\U000112f0", "\\U000112f1", "\\U000112f2", "\\U000112f3", "\\U000112f4", "\\U000112f5",
     "\\U000112f6", "\\U000112f7", "\\U000112f8", "\\U000112f9", "\\U00011450", "\\U00011451",
     "\\U00011452", "\\U00011453", "\\U00011454", "\\U00011455", "\\U00011456", "\\U00011457",
     "\\U00011458", "\\U00011459", "\\U000114d0", "\\U000114d1", "\\U000114d2", "\\U000114d3",
     "\\U000114d4", "\\U000114d5", "\\U000114d6", "\\U000114d7", "\\U000114d8", "\\U000114d9",
     "\\U00011650", "\\U00011651", "\\U00011652", "\\U00011653", "\\U00011654", "\\U00011655",
     "\\U00011656", "\\U00011657", "\\U00011658", "\\U00011659", "\\U000116c0", "\\U000116c1",
     "\\U000116c2", "\\U000116c3", "\\U000116c4", "\\U000116c5", "\\U000116c6", "\\U000116c7",
     "\\U000116c8", "\\U000116c9", "\\U00011730", "\\U00011731", "\\U00011732", "\\U00011733",
     "\\U00011734", "\\U00011735", "\\U00011736", "\\U00011737", "\\U00011738", "\\U00011739",
     "\\U000118e0", "\\U000118e1", "\\U000118e2", "\\U000118e3", "\\U000118e4", "\\U000118e5",
     "\\U000118e6", "\\U000118e7", "\\U000118e8", "\\U000118e9", "\\U00011950", "\\U00011951",
     "\\U00011952", "\\U00011953", "\\U00011954", "\\U00011955", "\\U00011956", "\\U00011957",
     "\\U00011958", "\\U00011959", "\\U00011c50", "\\U00011c51", "\\U00011c52", "\\U00011c53",
     "\\U00011c54", "\\U00011c55", "\\U00011c56", "\\U00011c57", "\\U00011c58", "\\U00011c59",
     "\\U00011d50", "\\U00011d51", "\\U00011d52", "\\U00011d53", "\\U00011d54", "\\U00011d55",
     "\\U00011d56", "\\U00011d57", "\\U00011d58", "\\U00011d59", "\\U00011da0", "\\U00011da1",
     "\\U00011da2", "\\U00011da3", "\\U00011da4", "\\U00011da5", "\\U00011da6", "\\U00011da7",
     "\\U00011da8", "\\U00011da9", "\\U00016a60", "\\U00016a61", "\\U00016a62", "\\U00016a63",
     "\\U00016a64", "\\U00016a65", "\\U00016a66", "\\U00016a67", "\\U00016a68", "\\U00016a69",
     "\\U00016ac0", "\\U00016ac1", "\\U00016ac2", "\\U00016ac3", "\\U00016ac4", "\\U00016ac5",
     "\\U00016ac6", "\\U00016ac7", "\\U00016ac8", "\\U00016ac9", "\\U00016b50", "\\U00016b51",
     "\\U00016b52", "\\U00016b53", "\\U00016b54", "\\U00016b55", "\\U00016b56", "\\U00016b57",
     "\\U00016b58", "\\U00016b59", "\\U0001d7ce", "\\U0001d7cf", "\\U0001d7d0", "\\U0001d7d1",
     "\\U0001d7d2", "\\U0001d7d3", "\\U0001d7d4", "\\U0001d7d5", "\\U0001d7d6", "\\U0001d7d7",
     "\\U0001d7d8", "\\U0001d7d9", "\\U0001d7da", "\\U0001d7db", "\\U0001d7dc", "\\U0001d7dd",
     "\\U0001d7de", "\\U0001d7df", "\\U0001d7e0", "\\U0001d7e1", "\\U0001d7e2", "\\U0001d7e3",
     "\\U0001d7e4", "\\U0001d7e5", "\\U0001d7e6", "\\U0001d7e7", "\\U0001d7e8", "\\U0001d7e9",
     "\\U0001d7ea", "\\U0001d7eb", "\\U0001d7ec", "\\U0001d7ed", "\\U0001d7ee", "\\U0001d7ef",
     "\\U0001d7f0", "\\U0001d7f1", "\\U0001d7f2", "\\U0001d7f3", "\\U0001d7f4", "\\U0001d7f5",
     "\\U0001d7f6", "\\U0001d7f7", "\\U0001d7f8", "\\U0001d7f9", "\\U0001d7fa", "\\U0001d7fb",
     "\\U0001d7fc", "\\U0001d7fd", "\\U0001d7fe", "\\U0001d7ff", "\\U0001e140", "\\U0001e141",
     "\\U0001e142", "\\U0001e143", "\\U0001e144", "\\U0001e145", "\\U0001e146", "\\U0001e147",
     "\\U0001e148", "\\U0001e149", "\\U0001e2f0", "\\U0001e2f1", "\\U0001e2f2", "\\U0001e2f3",
     "\\U0001e2f4", "\\U0001e2f5", "\\U0001e2f6", "\\U0001e2f7", "\\U0001e2f8", "\\U0001e2f9",
     "\\U0001e950", "\\U0001e951", "\\U0001e952", "\\U0001e953", "\\U0001e954", "\\U0001e955",
     "\\U0001e956", "\\U0001e957", "\\U0001e958", "\\U0001e959", "\\U0001fbf0", "\\U0001fbf1",
     "\\U0001fbf2", "\\U0001fbf3", "\\U0001fbf4", "\\U0001fbf5", "\\U0001fbf6", "\\U0001fbf7",
     "\\U0001fbf8", "\\U0001fbf9" }

BlankTab == {" ", "\t"}

\* MULTILINE ^ at index i
LineStart(t, i) == i = 1 \/ (i > 1 /\ i <= Len(t) + 1 /\ t[i - 1] = "\n")

\* MULTILINE $ after index j (j is the last matched index)
LineEnd(t, j) == j = Len(t) \/ (j < Len(t) /\ t[j + 1] = "\n")

\* decimal digits of a counter, as str(n) gives them
DigitChar == <<"0", "1", "2", "3", "4", "5", "6", "7", "8", "9">>

RECURSIVE Str(_)
Str(n) == IF n < 10 THEN <<DigitChar[n + 1]>>
          ELSE Str(n \div 10) \o <<DigitChar[(n % 10) + 1]>>


(***************************************************************************)
(* mkdocs-hooks/repo_links.py                                              *)
(***************************************************************************)
_DEFAULT_BRANCH == <<"m", "a", "i", "n">>

_EXTENSIONLESS_FILES ==
    { <<"C", "o", "n", "t", "a", "i", "n", "e", "r", "f", "i", "l", "e">>,
      <<"D", "o", "c", "k", "e", "r", "f", "i", "l", "e">>,
      <<"G", "e", "m", "f", "i", "l", "e">>,
      <<"L", "I", "C", "E", "N", "S", "E">>,
      <<"M", "a", "k", "e", "f", "i", "l", "e">>,
      <<"P", "r", "o", "c", "f", "i", "l", "e">>,
      <<"R", "a", "k", "e", "f", "i", "l", "e">>,
      <<"T", "a", "s", "k", "f", "i", "l", "e">>,
      <<"V", "a", "g", "r", "a", "n", "t", "f", "i", "l", "e">> }

_PLACEHOLDER_PREFIX == <<NUL, "P", "R", "O", "T">>

_PLACEHOLDER_SUFFIX == <<NUL>>

\* the key f"{_PLACEHOLDER_PREFIX}{counter}{_PLACEHOLDER_SUFFIX}"
PlaceholderKey(counter) == _PLACEHOLDER_PREFIX \o Str(counter) \o _PLACEHOLDER_SUFFIX

\* _FENCED_RE = ^(`{3,}|~{3,})[^\n]*\n[\s\S]*?\n\1[ \t]*$  (MULTILINE)
\* With an opening run of k fence characters and the opening line ending at
\* index nl, the lazy body stops at the first "\n" followed by the same k
\* characters, optional blanks and the end of a line.
FencedCloseEnd(t, k, fc, nl) ==
    LET ok(q) == /\ t[q] = "\n"
                 /\ q + k <= Len(t)
                 /\ \A j \in (q + 1)..(q + k) : t[j] = fc
                 /\ LineEnd(t, SkipChars(t, q + k + 1, BlankTab) - 1)
        S == {q \in (nl + 1)..Len(t) : ok(q)}
    IN IF S = {} THEN 0 ELSE SkipChars(t, Min(S) + k + 1, BlankTab) - 1

_FENCED_RE(t, i) ==
    IF ~(LineStart(t, i) /\ t[i] \in {BQ, "~"}) THEN 0
    ELSE LET close(fc, run, nl) ==
                 LET Ks == {k \in 3..run : FencedCloseEnd(t, k, fc, nl) # 0}
                 IN IF run < 3 \/ nl = 0 \/ Ks = {} THEN 0
                    ELSE FencedCloseEnd(t, Max(Ks), fc, nl)
             open(fc, run) == close(fc, run, FindCharFrom(t, i + run, {"\n"}))
         IN open(t[i], SkipChars(t, i, {t[i]}) - i)

\* _INLINE_CODE_RE = `[^`\n]+`
_INLINE_CODE_RE(t, i) ==
    IF ~(t[i] = BQ /\ i + 1 <= Len(t) /\ t[i + 1] \notin {BQ, "\n"}) THEN 0
    ELSE LET j == FindCharFrom(t, i + 1, {BQ, "\n"})
         IN IF j # 0 /\ t[j] = BQ THEN j ELSE 0

\* _HTML_COMMENT_RE = <!--[\s\S]*?-->
_HTML_COMMENT_RE(t, i) ==
    IF ~StartsWithAt(t, i, <<"<", "!", "-", "-">>) THEN 0
    ELSE LET j == FindFrom(t, i + 4, <<"-", "-", ">">>)
         IN IF j = 0 THEN 0 ELSE j + 2

\* posixpath.basename
Basename(path) ==
    LET S == {j \in 1..Len(path) : path[j] = "/"}
    IN IF S = {} THEN path ELSE Slice(path, Max(S) + 1, Len(path))

_is_likely_file(path) ==
    LET basename == Basename(RStrip(path, {"/"}))
    IN Contains(basename, <<".">>) \/ basename \in _EXTENSIONLESS_FILES

_build_github_url(repo_url, repo_path, suffix, branch) ==
    LET clean == RStrip(repo_path, {"/"})
        kind  == IF _is_likely_file(clean) THEN <<"b", "l", "o", "b">>
                                           ELSE <<"t", "r", "e", "e">>
    IN repo_url \o <<"/">> \o kind \o <<"/">> \o branch \o <<"/">> \o clean \o suffix

\* _split_target: (path, query + fragment)
_split_target(target) ==
    LET q == FindCharFrom(target, 1, {"?"})
        h == FindCharFrom(target, 1, {"#"})
    IN IF q # 0 THEN [path |-> Slice(target, 1, q - 1), suffix |-> Slice(target, q, Len(target))]
       ELSE IF h # 0 THEN [path |-> Slice(target, 1, h - 1), suffix |-> Slice(target, h, Len(target))]
       ELSE [path |-> target, suffix |-> <<>>]

\* posixpath.join(a, b)
PosixJoin(a, b) ==
    IF StartsWith(b, <<"/">>) THEN b
    ELSE IF a = <<>> \/ EndsWith(a, <<"/">>) THEN a \o b
    ELSE a \o <<"/">> \o b

\* the component loop of posixpath.normpath
NormComps(comps, initial_slashes) ==
    LET f[n \in 0..Len(comps)] ==
            IF n = 0 THEN <<>>
            ELSE LET acc  == f[n - 1]
                     comp == comps[n]
                 IN IF comp = <<>> \/ comp = <<".">> THEN acc
                    ELSE IF \/ comp # <<".", ".">>
                            \/ (initial_slashes = 0 /\ acc = <<>>)
                            \/ (acc # <<>> /\ acc[Len(acc)] = <<".", ".">>)
                         THEN Append(acc, comp)
                    ELSE IF acc # <<>> THEN SubSeq(acc, 1, Len(acc) - 1)
                    ELSE acc
    IN f[Len(comps)]

\* posixpath.normpath
PosixNormpath(path) ==
    IF path = <<>> THEN <<".">>
    ELSE LET initial_slashes ==
                 IF ~StartsWith(path, <<"/">>) THEN 0
                 ELSE IF StartsWith(path, <<"/", "/">>) /\ ~StartsWith(path, <<"/", "/", "/">>)
                      THEN 2 ELSE 1
             joined == JoinWith(NormComps(SplitOn(path, "/"), initial_slashes), "/")
             full   == [k \in 1..initial_slashes |-> "/"] \o joined
         IN IF full = <<>> THEN <<".">> ELSE full

\* re.sub(r"^(\.\./)+", "", resolved)
StripLeadingDotDots(resolved) ==
    LET ok(n) == \A k \in 0..(n - 1) : StartsWithAt(resolved, 3 * k + 1, <<".", ".", "/">>)
        n == Max({m \in 0..(Len(resolved) \div 3) : ok(m)})
    IN Slice(resolved, 3 * n + 1, Len(resolved))

\* the path _resolve_and_rewrite resolves a target to
ResolvedPath(target, page_dir) ==
    PosixNormpath(PosixJoin(page_dir, _split_target(target).path))

\* the test `resolved.startswith("..")` of _resolve_and_rewrite
ResolvedEscapes(resolved) == StartsWith(resolved, <<".", ".">>)

\* _resolve_and_rewrite: None when the test above fails, else the GitHub URL
None == "None"

_resolve_and_rewrite(target, page_dir, repo_url, branch) ==
    LET build(st, stripped) ==
            _build_github_url(repo_url,
                              IF EndsWith(st.path, <<"/">>) THEN stripped \o <<"/">>
                                                            ELSE stripped,
                              st.suffix, branch)
        rewrite(resolved) ==
            IF ~ResolvedEscapes(resolved) THEN None
            ELSE build(_split_target(target), StripLeadingDotDots(resolved))
    IN rewrite(ResolvedPath(target, page_dir))


NoMatch == [e |-> 0]

\* _LINK_RE = (?<!!)\[([^\]]*)\]\((\.\./[^)]*)\)
LinkParts(t, i) ==
    IF ~(t[i] = "[" /\ (i = 1 \/ t[i - 1] # "!")) THEN NoMatch
    ELSE LET parts(c, p) ==
                 IF c # 0 /\ StartsWithAt(t, c + 1, <<"(", ".", ".", "/">>) /\ p # 0
                 THEN [e |-> p, text |-> Slice(t, i + 1, c - 1),
                       target |-> Slice(t, c + 2, p - 1)]
                 ELSE NoMatch
             close(c) == parts(c, IF c = 0 THEN 0 ELSE FindCharFrom(t, c + 5, {")"}))
         IN close(FindCharFrom(t, i + 1, {"]"}))

_LINK_RE(t, i) == LinkParts(t, i).e

\* re.IGNORECASE on the letters the pattern names
Lower(c) == CASE c = "A" -> "a" [] c = "H" -> "h" [] c = "R" -> "r"
              [] c = "E" -> "e" [] c = "F" -> "f" [] OTHER -> c

Quotes == {"\"", "'"}

\* the part of _HTML_HREF_RE from `href` on, tried with `href` at index h
HrefAt(t, h) ==
    LET parts(a, b, z, g) ==
            IF /\ h + 3 <= Len(t)
               /\ \A k \in 1..4 : Lower(t[h + k - 1]) = <<"h", "r", "e", "f">>[k]
               /\ a <= Len(t) /\ t[a] = "="
               /\ b <= Len(t) /\ t[b] \in Quotes
               /\ StartsWithAt(t, b + 1, <<".", ".", "/">>)
               /\ z # 0 /\ t[z] = t[b]
               /\ g # 0
            THEN [e |-> g, prefix_end |-> b - 1, quote |-> t[b],
                  target |-> Slice(t, b + 1, z - 1), tail |-> Slice(t, z + 1, g)]
            ELSE NoMatch
        \* a: the "=", b: the opening quote, z: the closing quote, g: the ">"
        closing(a, b, z) == parts(a, b, z, IF z = 0 THEN 0 ELSE FindCharFrom(t, z + 1, {">"}))
        quoted(a, b) == closing(a, b, FindCharFrom(t, b + 4, Quotes))
        equals(a) == quoted(a, SkipChars(t, a + 1, WS))
    IN equals(SkipChars(t, h + 4, WS))

\* _HTML_HREF_RE = (<a\s[^>]*?href\s*=\s*)(["'])(\.\.\/[^"']*)\2([^>]*>)  (IGNORECASE)
HrefParts(t, i) ==
    IF ~(t[i] = "<" /\ i + 2 <= Len(t) /\ Lower(t[i + 1]) = "a" /\ t[i + 2] \in WS)
    THEN NoMatch
    ELSE LET parts(m) ==
                 [e |-> m.e, prefix |-> Slice(t, i, m.prefix_end), quote |-> m.quote,
                  target |-> m.target, tail |-> m.tail]
             first(S) == IF S = {} THEN NoMatch ELSE parts(HrefAt(t, Min(S)))
             within(gt) ==
                 first({h \in (i + 3)..(IF gt = 0 THEN Len(t) ELSE gt) : HrefAt(t, h).e # 0})
         IN within(FindCharFrom(t, i + 3, {">"}))

_HTML_HREF_RE(t, i) == HrefParts(t, i).e

\* _REF_LINK_RE = ^(\[([^\]]+)\]:\s*)(\.\.\/\S+)([ \t]+"[^"]*")?[ \t]*$  (MULTILINE)
RefParts(t, i) ==
    IF ~(LineStart(t, i) /\ t[i] = "[") THEN NoMatch
    ELSE LET \* c: the "]", s: the target's first index, u: its last,
             \* sp: the first index after the blanks that follow the target,
             \* tq: the closing quote of the optional title group
             parts(c, s, u, sp, tq, withTitle) ==
                 IF /\ c >= i + 2
                    /\ c + 1 <= Len(t) /\ t[c + 1] = ":"
                    /\ StartsWithAt(t, s, <<".", ".", "/">>)
                    /\ u >= s + 3
                    /\ (withTitle \/ LineEnd(t, sp - 1))
                 THEN [e |-> IF withTitle THEN SkipChars(t, tq + 1, BlankTab) - 1 ELSE sp - 1,
                       prefix |-> Slice(t, i, s - 1), target |-> Slice(t, s, u),
                       title |-> IF withTitle THEN Slice(t, u + 1, tq) ELSE <<>>]
                 ELSE NoMatch
             titled(c, s, u, sp, tq) ==
                 parts(c, s, u, sp, tq,
                       tq # 0 /\ LineEnd(t, SkipChars(t, tq + 1, BlankTab) - 1))
             blanks(c, s, u, sp) ==
                 titled(c, s, u, sp,
                        IF sp > u + 1 /\ sp <= Len(t) /\ t[sp] = "\""
                        THEN FindCharFrom(t, sp + 1, {"\""}) ELSE 0)
             target(c, s, u) == blanks(c, s, u, SkipChars(t, u + 1, BlankTab))
             space(c, s, w) == target(c, s, IF w = 0 THEN Len(t) ELSE w - 1)
             label(c, s) == space(c, s, FindCharFrom(t, s + 3, WS))
             bracket(c) == label(c, SkipChars(t, c + 2, WS))
         IN bracket(FindCharFrom(t, i + 1, {"]"}))

_REF_LINK_RE(t, i) == RefParts(t, i).e

\* _rewrite_md, the replacement function of the first pass
_rewrite_md(t, i, e, page_dir, repo_url, branch) ==
    LET sub(m, url) == IF url = None THEN SubSeq(t, i, e)
                       ELSE <<"[">> \o m.text \o <<"]", "(">> \o url \o <<")">>
        match(m) == sub(m, _resolve_and_rewrite(m.target, page_dir, repo_url, branch))
    IN match(LinkParts(t, i))

\* _rewrite_html, the replacement function of the second pass
_rewrite_html(t, i, e, page_dir, repo_url, branch) ==
    LET sub(m, url) == IF url = None THEN SubSeq(t, i, e)
                       ELSE m.prefix \o <<m.quote>> \o url \o <<m.quote>> \o m.tail
        match(m) == sub(m, _resolve_and_rewrite(m.target, page_dir, repo_url, branch))
    IN match(HrefParts(t, i))

\* _rewrite_ref, the replacement function of the third pass
_rewrite_ref(t, i, e, page_dir, repo_url, branch) ==
    LET sub(m, url) == IF url = None THEN SubSeq(t, i, e)
                       ELSE m.prefix \o url \o m.title
        match(m) == sub(m, _resolve_and_rewrite(m.target, page_dir, repo_url, branch))
    IN match(RefParts(t, i))

\* pattern.match at index i, by the name of the compiled pattern: the last
\* index of the match that starts at i, 0 when there is none
LkMatchEnd(re, t, i) ==
    CASE re = "_FENCED_RE"       -> _FENCED_RE(t, i)
      [] re = "_INLINE_CODE_RE"  -> _INLINE_CODE_RE(t, i)
      [] re = "_HTML_COMMENT_RE" -> _HTML_COMMENT_RE(t, i)
      [] re = "_LINK_RE"         -> _LINK_RE(t, i)
      [] re = "_HTML_HREF_RE"    -> _HTML_HREF_RE(t, i)
      [] re = "_REF_LINK_RE"     -> _REF_LINK_RE(t, i)

\* the matches pattern.sub visits: <<start, end>> pairs, leftmost first,
\* not overlapping
LkMatches(re, t) ==
    LET f[i \in 1..(Len(t) + 1)] ==
            LET step(e) == IF e = 0 THEN f[i + 1] ELSE <<(<<i, e>>)>> \o f[e + 1]
            IN IF i > Len(t) THEN <<>> ELSE step(LkMatchEnd(re, t, i))
    IN f[1]

\* one `pattern.sub(_sub, markdown)` of _protect: every match is replaced by
\* the next placeholder key and recorded under that key; acc.placeholders[n]
\* is the original text stored under PlaceholderKey(n - 1)
ProtectPass(acc, re) ==
    LET sub(t, ms, counter) ==
            LET f[n \in 0..Len(ms)] ==
                    IF n = 0 THEN <<>>
                    ELSE f[n - 1]
                         \o Slice(t, (IF n = 1 THEN 1 ELSE ms[n - 1][2] + 1), ms[n][1] - 1)
                         \o PlaceholderKey(counter + n - 1)
            IN [ text |-> f[Len(ms)]
                          \o Slice(t, (IF Len(ms) = 0 THEN 1 ELSE ms[Len(ms)][2] + 1), Len(t)),
                 placeholders |-> acc.placeholders
                                  \o [n \in 1..Len(ms) |-> SubSeq(t, ms[n][1], ms[n][2])] ]
    IN sub(acc.text, LkMatches(re, acc.text), Len(acc.placeholders))

\* _protect: fenced blocks, then inline code, then HTML comments
_protect(markdown) ==
    LET patterns == <<"_FENCED_RE", "_INLINE_CODE_RE", "_HTML_COMMENT_RE">>
        f[n \in 0..3] == IF n = 0 THEN [text |-> markdown, placeholders |-> <<>>]
                         ELSE ProtectPass(f[n - 1], patterns[n])
    IN f[3]

\* _restore: for key, original in placeholders.items(): text.replace(key, original)
_restore(text, placeholders) ==
    LET f[n \in 0..Len(placeholders)] ==
            IF n = 0 THEN text
            ELSE ReplaceAll(f[n - 1], PlaceholderKey(n - 1), placeholders[n])
    IN f[Len(placeholders)]

\* the target group of a link pattern's match at i
LkTarget(re, t, i) ==
    CASE re = "_LINK_RE"      -> LinkParts(t, i).target
      [] re = "_HTML_HREF_RE" -> HrefParts(t, i).target
      [] re = "_REF_LINK_RE"  -> RefParts(t, i).target

\* the replacement function each link pass hands to pattern.sub
LkReplacement(re, t, i, e, page_dir, repo_url, branch) ==
    CASE re = "_LINK_RE"      -> _rewrite_md(t, i, e, page_dir, repo_url, branch)
      [] re = "_HTML_HREF_RE" -> _rewrite_html(t, i, e, page_dir, repo_url, branch)
      [] re = "_REF_LINK_RE"  -> _rewrite_ref(t, i, e, page_dir, repo_url, branch)

\* markdown = pattern.sub(_rewrite_xxx, markdown)
LkSub(re, t, page_dir, repo_url, branch) ==
    LET f[i \in 1..(Len(t) + 1)] ==
            LET step(e) ==
                    IF e = 0 THEN <<t[i]>> \o f[i + 1]
                    ELSE LkReplacement(re, t, i, e, page_dir, repo_url, branch) \o f[e + 1]
            IN IF i > Len(t) THEN <<>> ELSE step(LkMatchEnd(re, t, i))
    IN f[1]

\* the targets a pass hands to _resolve_and_rewrite and gets a URL for
RewrittenTargets(re, t, page_dir, repo_url, branch) ==
    LET targets(ms) == { LkTarget(re, t, ms[n][1]) : n \in 1..Len(ms) }
    IN { target \in targets(LkMatches(re, t)) :
           _resolve_and_rewrite(target, page_dir, repo_url, branch) # None }

(***************************************************************************)
(* on_page_markdown as a process: one step per statement group of the hook *)
(***************************************************************************)
\* bound: number of text segments a page is assembled from
MaxSegs == 3

\* the text segments pages are assembled from
LkSegments ==
    { <<"[", "t", "]", "(", ".", ".", "/", "x", ".", "m", "d", ")">>,
      <<"[", "t", "]", "(", ".", ".", "/", ".", ".", "x", ")">>,
      <<BQ>>,
      <<BQ, "c", BQ>>,
      <<"<", "!", "-", "-">>,
      <<"-", "-", ">">>,
      <<BQ, BQ, BQ, "\n">>,
      <<"\n", BQ, BQ, BQ>>,
      <<"\n">>,
      <<"<", "a", " ", "h", "r", "e", "f", "=", "\"", ".", ".", "/", ".", ".", "/", "L", "\"", ">">>,
      <<"[", "r", "]", ":", " ", ".", ".", "/", ".", ".", "/", "q">> }

\* "".join(segments)
Concat(ss) ==
    LET f[n \in 0..Len(ss)] == IF n = 0 THEN <<>> ELSE f[n - 1] \o ss[n]
    IN f[Len(ss)]

LkInputs == { Concat(ss) : ss \in UNION { [1..k -> LkSegments] : k \in 0..MaxSegs } }

\* page directories: a page at the docs root, a page one level down
LkPageDirs == { <<>>, <<"g", "u", "i", "d", "e">> }

\* config["repo_url"]: unset, set, set with a trailing slash
LkRepoUrls == { <<>>, <<"h", ":", "/", "/", "g", "/", "r">>,
                <<"h", ":", "/", "/", "g", "/", "r", "/">> }

LkInit ==
    /\ lk_pc = "start"
    /\ lk_input \in LkInputs
    /\ lk_page_dir \in LkPageDirs
    /\ lk_repo_url \in LkRepoUrls
    /\ lk_markdown = lk_input
    /\ lk_placeholders = <<>>
    /\ lk_rewritten = {}
    /\ gh = Off /\ ch = Off /\ wf = Off /\ td = Off /\ sc = Off

\* repo_url = config.get("repo_url", "").rstrip("/")
LkRepo == RStrip(lk_repo_url, {"/"})

\* if not repo_url: return markdown
LkNoRepoUrl ==
    /\ lk_pc = "start"
    /\ LkRepo = <<>>
    /\ lk_pc' = "done"
    /\ UNCHANGED <<gh, ch, wf, td, sc, lk_input, lk_page_dir, lk_repo_url, lk_markdown,
                   lk_placeholders, lk_rewritten>>

\* markdown, placeholders = _protect(markdown)
LkProtect ==
    /\ lk_pc = "start"
    /\ LkRepo # <<>>
    /\ LET p == _protect(lk_markdown)
       IN /\ lk_markdown' = p.text
          /\ lk_placeholders' = p.placeholders
    /\ lk_pc' = "protected"
    /\ UNCHANGED <<gh, ch, wf, td, sc, lk_input, lk_page_dir, lk_repo_url, lk_rewritten>>

\* markdown = _LINK_RE.sub(_rewrite_md, markdown)
LkMarkdownLinks ==
    /\ lk_pc = "protected"
    /\ lk_markdown' = LkSub("_LINK_RE", lk_markdown, lk_page_dir, LkRepo, _DEFAULT_BRANCH)
    /\ lk_rewritten' = lk_rewritten \cup
           RewrittenTargets("_LINK_RE", lk_markdown, lk_page_dir, LkRepo, _DEFAULT_BRANCH)
    /\ lk_pc' = "md_links"
    /\ UNCHANGED <<gh, ch, wf, td, sc, lk_input, lk_page_dir, lk_repo_url, lk_placeholders>>

\* markdown = _HTML_HREF_RE.sub(_rewrite_html, markdown)
LkHtmlLinks ==
    /\ lk_pc = "md_links"
    /\ lk_markdown' = LkSub("_HTML_HREF_RE", lk_markdown, lk_page_dir, LkRepo, _DEFAULT_BRANCH)
    /\ lk_rewritten' = lk_rewritten \cup
           RewrittenTargets("_HTML_HREF_RE", lk_markdown, lk_page_dir, LkRepo, _DEFAULT_BRANCH)
    /\ lk_pc' = "html_links"
    /\ UNCHANGED <<gh, ch, wf, td, sc, lk_input, lk_page_dir, lk_repo_url, lk_placeholders>>

\* markdown = _REF_LINK_RE.sub(_rewrite_ref, markdown)
LkRefLinks ==
    /\ lk_pc = "html_links"
    /\ lk_markdown' = LkSub("_REF_LINK_RE", lk_markdown, lk_page_dir, LkRepo, _DEFAULT_BRANCH)
    /\ lk_rewritten' = lk_rewritten \cup
           RewrittenTargets("_REF_LINK_RE", lk_markdown, lk_page_dir, LkRepo, _DEFAULT_BRANCH)
    /\ lk_pc' = "ref_links"
    /\ UNCHANGED <<gh, ch, wf, td, sc, lk_input, lk_page_dir, lk_repo_url, lk_placeholders>>

\* markdown = _restore(markdown, placeholders); return markdown
LkRestore ==
    /\ lk_pc = "ref_links"
    /\ lk_markdown' = _restore(lk_markdown, lk_placeholders)
    /\ lk_pc' = "done"
    /\ UNCHANGED <<gh, ch, wf, td, sc, lk_input, lk_page_dir, lk_repo_url, lk_placeholders, lk_rewritten>>

LkNext ==
    \/ LkNoRepoUrl
    \/ LkProtect
    \/ LkMarkdownLinks
    \/ LkHtmlLinks
    \/ LkRefLinks
    \/ LkRestore

SpecLinks == LkInit /\ [][LkNext]_vars


(***************************************************************************)
(* Properties of the link-rewriting hook                                   *)
(***************************************************************************)
\* the text of the input that placeholder n stands for: the stored match with
\* the placeholders of earlier matches inside it replaced by their own text
RegionText(placeholders, n) ==
    LET f[k \in 0..(n - 1)] ==
            IF k = 0 THEN placeholders[n]
            ELSE ReplaceAll(f[k - 1], PlaceholderKey(n - k - 1), placeholders[n - k])
    IN f[n - 1]

\* C1: when the hook returns, every fenced code block, inline code span and
\* HTML comment of the input page is present in the output exactly as it was
\* in the input.
C1_ProtectedTextUnchanged ==
    lk_pc = "done" =>
        \A n \in 1..Len(lk_placeholders) :
            Contains(lk_markdown, RegionText(lk_placeholders, n))

\* a target stays within the documentation root when the first component of
\* its path, resolved against the page directory and normalized, is not ".."
StaysInDocs(target, page_dir) ==
    SplitOn(ResolvedPath(target, page_dir), "/")[1] # <<".", ".">>

\* C2: every link target the hook rewrites escapes the documentation root;
\* a target that stays within the root is left unchanged.
C2_OnlyEscapingTargetsRewritten ==
    \A target \in lk_rewritten : ~StaysInDocs(target, lk_page_dir)

\* the link hook when the specification at hand is about another script
LkOff ==
    /\ lk_pc = "off" /\ lk_input = <<>> /\ lk_page_dir = <<>> /\ lk_repo_url = <<>>
    /\ lk_markdown = <<>> /\ lk_placeholders = <<>> /\ lk_rewritten = {}

(***************************************************************************)
(* Characters, files as text, and re.sub replacement templates             *)
(***************************************************************************)
\* str.strip()
Strip(t) ==
    LET cut(S) == IF S = {} THEN <<>> ELSE SubSeq(t, Min(S), Max(S))
    IN cut({j \in 1..Len(t) : t[j] \notin WS})

\* the characters U+0000 .. U+00FF: chr(n) is Latin1[n + 1]
Latin1 ==
   <<
     NUL, "", "", "", "", "", "", "", "", "\t", "\n", "", "\f", "\r", "", "", "", "",
     "", "", "", "", "", "", "", "", "", "", "", "", "", "", " ", "!", "\"", "#",
     "$", "%", "&", "'", "(", ")", "*", "+", ",", "-", ".", "/", "0", "1", "2", "3", "4", "5", "6",
     "7", "8", "9", ":", ";", "<", "=", ">", "?", "@", "A", "B", "C", "D", "E", "F", "G", "H", "I",
     "J", "K", "L", "M", "N", "O", "P", "Q", "R", "S", "T", "U", "V", "W", "X", "Y", "Z", "[",
     "\\", "]", "^", "_", BQ, "a", "b", "c", "d", "e", "f", "g", "h", "i", "j", "k", "l", "m", "n",
     "o", "p", "q", "r", "s", "t", "u", "v", "w", "x", "y", "z", "{", "|", "}", "~", "", "", "",
     "", "", "", "", "", "", "", "", "", "", "", "", "", "", "", "", "", "", "",
     "", "", "", "", "", "", "", "", "", "", "", " ", "¡", "¢", "£", "¤", "¥", "¦", "§",
     "¨", "©", "ª", "«", "¬", "­", "®", "¯", "°", "±", "²", "³", "´", "µ", "¶", "·", "¸", "¹", "º",
     "»", "¼", "½", "¾", "¿", "À", "Á", "Â", "Ã", "Ä", "Å", "Æ", "Ç", "È", "É", "Ê", "Ë", "Ì", "Í",
     "Î", "Ï", "Ð", "Ñ", "Ò", "Ó", "Ô", "Õ", "Ö", "×", "Ø", "Ù", "Ú", "Û", "Ü", "Ý", "Þ", "ß", "à",
     "á", "â", "ã", "ä", "å", "æ", "ç", "è", "é", "ê", "ë", "ì", "í", "î", "ï", "ð", "ñ", "ò", "ó",
     "ô", "õ", "ö", "÷", "ø", "ù", "ú", "û", "ü", "ý", "þ", "ÿ" >>


HexDigit == <<"0", "1", "2", "3", "4", "5", "6", "7", "8", "9", "a", "b", "c", "d", "e", "f">>

\* ord(c): the code point of a character, read from its escape when it is
\* above U+00FF
Ord(c) ==
    LET digit(h) == CHOOSE d \in 0..15 : HexDigit[d + 1] = h
        hex[k \in 2..Len(c)] ==
            IF k = 2 THEN 0 ELSE 16 * hex[k - 1] + digit(SubSeq(c, k, k))
    IN IF c = NUL THEN 0
       ELSE IF c = BQ THEN 96
       ELSE IF Len(c) = 1 THEN CHOOSE n \in 0..255 : Latin1[n + 1] = c
       ELSE hex[Len(c)]

\* chr(n)
Chr(n) ==
    LET digits(width) ==
            LET h[k \in 0..width] ==
                    IF k = 0 THEN ""
                    ELSE h[k - 1] \o HexDigit[((n \div (16 ^ (width - k))) % 16) + 1]
            IN h[width]
    IN IF n = 0 THEN NUL
       ELSE IF n = 96 THEN BQ
       ELSE IF n <= 255 THEN Latin1[n + 1]
       ELSE IF n <= 65535 THEN "\\u" \o digits(4)
       ELSE "\\U" \o digits(8)

\* the characters of a string constant of the code
Chars(s) == [k \in 1..Len(s) |-> SubSeq(s, k, k)]

\* the line boundaries of str.splitlines()
LineBreaks ==
   { "\n", "", "\f", "\r", "", "", "", "", "\\u2028", "\\u2029" }

\* the text read_text() returns for the characters of the file: the
\* universal newlines of open() turn "\r\n" and "\r" into "\n"
read_text(t) ==
    LET \* the "\n" of a "\r\n" goes, then every "\r" is a "\n"
        kept(i) == ~(t[i] = "\n" /\ i > 1 /\ t[i - 1] = "\r")
        newline(c) == IF c = "\r" THEN "\n" ELSE c
        chars(at) == [k \in 1..Len(at) |-> newline(t[at[k]])]
    IN chars(SelectSeq([i \in 1..Len(t) |-> i], kept))

\* str.splitlines(keepends): "\r\n" is one boundary, and no empty last line
splitlines(t, keepends) ==
    LET \* e: the last character of the boundary that starts at b
        line(i, b, e) == Slice(t, i, IF keepends THEN e ELSE b - 1)
        f[i \in 1..(Len(t) + 1)] ==
            LET cut(b) ==
                    IF b = 0 THEN <<Slice(t, i, Len(t))>>
                    ELSE IF t[b] = "\r" /\ b < Len(t) /\ t[b + 1] = "\n"
                         THEN <<line(i, b, b + 1)>> \o f[b + 2]
                    ELSE <<line(i, b, b)>> \o f[b + 1]
            IN IF i > Len(t) THEN <<>> ELSE cut(FindCharFrom(t, i, LineBreaks))
    IN f[1]

\* re.sub compiles the replacement string repl first
\* (re._parser.parse_template): the parts of the template, each a text or a
\* reference to the whole match, or the exception of the leftmost fault of
\* repl; the pattern has no groups
parse_template(repl) ==
    LET error == [raised |-> "error", parts |-> <<>>]
        literal(chars) == [group |-> FALSE, text |-> chars]
        OCTDIGITS == {"0", "1", "2", "3", "4", "5", "6", "7"}
        DIGITS == OCTDIGITS \cup {"8", "9"}
        \* the code points of ASCIILETTERS
        ASCIILETTERS == (65..90) \cup (97..122)
        oct(c) == CHOOSE d \in 0..9 : DigitChar[d + 1] = c
        isoct(k) == k <= Len(repl) /\ repl[k] \in OCTDIGITS
        \* int(name) is 0: blanks around, a sign, zeros with single "_" between
        zero_int(name, ZeroDigit) ==
            LET digits(b) ==
                    /\ b # <<>> /\ b[1] \in ZeroDigit /\ b[Len(b)] \in ZeroDigit
                    /\ \A k \in 1..Len(b) :
                         \/ b[k] \in ZeroDigit
                         \/ b[k] = "_" /\ b[k - 1] # "_"
                signed(s) == digits(IF s # <<>> /\ s[1] \in {"+", "-"} THEN Tail(s) ELSE s)
                \* int() strips the blanks of str.strip() except U+001C .. U+001F
                blank == WS \ {Latin1[29], Latin1[30], Latin1[31], Latin1[32]}
                stripped(S) == IF S = {} THEN <<>> ELSE SubSeq(name, Min(S), Max(S))
            IN signed(stripped({j \in 1..Len(name) : name[j] \notin blank}))
        \* the first ">" from k on that no backslash escapes; 0: none, -1: the
        \* string ends in a lone backslash
        closing(k) ==
            LET g[j \in k..(Len(repl) + 1)] ==
                    IF j > Len(repl) THEN 0
                    ELSE IF repl[j] = ">" THEN j
                    ELSE IF repl[j] = "\\" THEN (IF j = Len(repl) THEN -1 ELSE g[j + 2])
                    ELSE g[j + 1]
            IN g[k]
        \* points: ord() of the characters of repl; IdStart, IdContinue: the
        \* ranges <<first, last>> of the code points that start and that
        \* continue an identifier; zeros: the decimal digits int() reads as
        \* zero; chr: chr(n) is chr[n + 1]
        expand(points, IdStart, IdContinue, zeros, chr) ==
            LET within(ranges, n) ==
                    \E k \in 1..Len(ranges) : ranges[k][1] <= n /\ n <= ranges[k][2]
                \* str.isidentifier() of repl[s..e], which is not empty
                isidentifier(s, e) ==
                    /\ within(IdStart, points[s])
                    /\ \A k \in (s + 1)..e :
                         within(IdStart, points[k]) \/ within(IdContinue, points[k])
                f[i \in 1..(Len(repl) + 1)] ==
                    LET before(part, rest) ==
                            IF rest.raised # None THEN rest
                            ELSE [raised |-> None, parts |-> <<part>> \o rest.parts]
                        lit(chars, next) == before(literal(chars), f[next])
                        group(name, e) ==
                            IF name = <<>> THEN error
                            ELSE IF isidentifier(i + 3, e - 1)
                                 \* the tokenizer reads one token ahead
                                 THEN IF e + 1 = Len(repl) /\ repl[e + 1] = "\\" THEN error
                                      ELSE [raised |-> "IndexError", parts |-> <<>>]
                            ELSE IF zero_int(name, zeros)
                                 THEN before([group |-> TRUE, text |-> <<>>], f[e + 1])
                            ELSE error
                        named(e) == IF e <= 0 THEN error ELSE group(Slice(repl, i + 3, e - 1), e)
                        octal3(n) == IF n > 255 THEN error ELSE lit(<<chr[n + 1]>>, i + 4)
                        escape(c) ==
                            IF c = "g"
                            THEN IF i + 2 <= Len(repl) /\ repl[i + 2] = "<" THEN named(closing(i + 3))
                                 ELSE error
                            ELSE IF c = "0"
                            THEN IF isoct(i + 2) /\ isoct(i + 3)
                                 THEN lit(<<chr[8 * oct(repl[i + 2]) + oct(repl[i + 3]) + 1]>>, i + 4)
                                 ELSE IF isoct(i + 2)
                                      THEN lit(<<chr[oct(repl[i + 2]) + 1]>>, i + 3)
                                 ELSE lit(<<NUL>>, i + 2)
                            ELSE IF c \in DIGITS
                            THEN IF c \in OCTDIGITS /\ isoct(i + 2) /\ isoct(i + 3)
                                 THEN octal3(64 * oct(c) + 8 * oct(repl[i + 2]) + oct(repl[i + 3]))
                                 ELSE error
                            ELSE IF c = "a" THEN lit(<<chr[8]>>, i + 2)
                            ELSE IF c = "b" THEN lit(<<chr[9]>>, i + 2)
                            ELSE IF c = "f" THEN lit(<<"\f">>, i + 2)
                            ELSE IF c = "n" THEN lit(<<"\n">>, i + 2)
                            ELSE IF c = "r" THEN lit(<<"\r">>, i + 2)
                            ELSE IF c = "t" THEN lit(<<"\t">>, i + 2)
                            ELSE IF c = "v" THEN lit(<<chr[12]>>, i + 2)
                            ELSE IF c = "\\" THEN lit(<<"\\">>, i + 2)
                            ELSE IF points[i + 1] \in ASCIILETTERS THEN error
                            ELSE lit(<<"\\", c>>, i + 2)
                        \* the characters up to the next backslash, at b, stand for themselves
                        plain(b) ==
                            IF b = 0 THEN [raised |-> None, parts |-> <<literal(Slice(repl, i, Len(repl)))>>]
                            ELSE lit(Slice(repl, i, b - 1), b)
                    IN IF i > Len(repl) THEN [raised |-> None, parts |-> <<>>]
                       ELSE IF repl[i] # "\\" THEN plain(FindCharFrom(repl, i, {"\\"}))
                       ELSE IF i = Len(repl) THEN error
                       ELSE escape(repl[i + 1])
            IN f[1]
    IN expand([k \in 1..Len(repl) |-> Ord(repl[k])],
           <<
             <<65, 90>>, <<95, 95>>, <<97, 122>>, <<170, 170>>, <<181, 181>>, <<186, 186>>,
             <<192, 214>>, <<216, 246>>, <<248, 705>>, <<710, 721>>, <<736, 740>>, <<748, 748>>,
             <<750, 750>>, <<880, 884>>, <<886, 887>>, <<891, 893>>, <<895, 895>>, <<902, 902>>,
             <<904, 906>>, <<908, 908>>, <<910, 929>>, <<931, 1013>>, <<1015, 1153>>,
             <<1162, 1327>>, <<1329, 1366>>, <<1369, 1369>>, <<1376, 1416>>, <<1488, 1514>>,
             <<1519, 1522>>, <<1568, 1610>>, <<1646, 1647>>, <<1649, 1747>>, <<1749, 1749>>,
             <<1765, 1766>>, <<1774, 1775>>, <<1786, 1788>>, <<1791, 1791>>, <<1808, 1808>>,
             <<1810, 1839>>, <<1869, 1957>>, <<1969, 1969>>, <<1994, 2026>>, <<2036, 2037>>,
             <<2042, 2042>>, <<2048, 2069>>, <<2074, 2074>>, <<2084, 2084>>, <<2088, 2088>>,
             <<2112, 2136>>, <<2144, 2154>>, <<2160, 2183>>, <<2185, 2190>>, <<2208, 2249>>,
             <<2308, 2361>>, <<2365, 2365>>, <<2384, 2384>>, <<2392, 2401>>, <<2417, 2432>>,
             <<2437, 2444>>, <<2447, 2448>>, <<2451, 2472>>, <<2474, 2480>>, <<2482, 2482>>,
             <<2486, 2489>>, <<2493, 2493>>, <<2510, 2510>>, <<2524, 2525>>, <<2527, 2529>>,
             <<2544, 2545>>, <<2556, 2556>>, <<2565, 2570>>, <<2575, 2576>>, <<2579, 2600>>,
             <<2602, 2608>>, <<2610, 2611>>, <<2613, 2614>>, <<2616, 2617>>, <<2649, 2652>>,
             <<2654, 2654>>, <<2674, 2676>>, <<2693, 2701>>, <<2703, 2705>>, <<2707, 2728>>,
             <<2730, 2736>>, <<2738, 2739>>, <<2741, 2745>>, <<2749, 2749>>, <<2768, 2768>>,
             <<2784, 2785>>, <<2809, 2809>>, <<2821, 2828>>, <<2831, 2832>>, <<2835, 2856>>,
             <<2858, 2864>>, <<2866, 2867>>, <<2869, 2873>>, <<2877, 2877>>, <<2908, 2909>>,
             <<2911, 2913>>, <<2929, 2929>>, <<2947, 2947>>, <<2949, 2954>>, <<2958, 2960>>,
             <<2962, 2965>>, <<2969, 2970>>, <<2972, 2972>>, <<2974, 2975>>, <<2979, 2980>>,
             <<2984, 2986>>, <<2990, 3001>>, <<3024, 3024>>, <<3077, 3084>>, <<3086, 3088>>,
             <<3090, 3112>>, <<3114, 3129>>, <<3133, 3133>>, <<3160, 3162>>, <<3165, 3165>>,
             <<3168, 3169>>, <<3200, 3200>>, <<3205, 3212>>, <<3214, 3216>>, <<3218, 3240>>,
             <<3242, 3251>>, <<3253, 3257>>, <<3261, 3261>>, <<3293, 3294>>, <<3296, 3297>>,
             <<3313, 3314>>, <<3332, 3340>>, <<3342, 3344>>, <<3346, 3386>>, <<3389, 3389>>,
             <<3406, 3406>>, <<3412, 3414>>, <<3423, 3425>>, <<3450, 3455>>, <<3461, 3478>>,
             <<3482, 3505>>, <<3507, 3515>>, <<3517, 3517>>, <<3520, 3526>>, <<3585, 3632>>,
             <<3634, 3634>>, <<3648, 3654>>, <<3713, 3714>>, <<3716, 3716>>, <<3718, 3722>>,
             <<3724, 3747>>, <<3749, 3749>>, <<3751, 3760>>, <<3762, 3762>>, <<3773, 3773>>,
             <<3776, 3780>>, <<3782, 3782>>, <<3804, 3807>>, <<3840, 3840>>, <<3904, 3911>>,
             <<3913, 3948>>, <<3976, 3980>>, <<4096, 4138>>, <<4159, 4159>>, <<4176, 4181>>,
             <<4186, 4189>>, <<4193, 4193>>, <<4197, 4198>>, <<4206, 4208>>, <<4213, 4225>>,
             <<4238, 4238>>, <<4256, 4293>>, <<4295, 4295>>, <<4301, 4301>>, <<4304, 4346>>,
             <<4348, 4680>>, <<4682, 4685>>, <<4688, 4694>>, <<4696, 4696>>, <<4698, 4701>>,
             <<4704, 4744>>, <<4746, 4749>>, <<4752, 4784>>, <<4786, 4789>>, <<4792, 4798>>,
             <<4800, 4800>>, <<4802, 4805>>, <<4808, 4822>>, <<4824, 4880>>, <<4882, 4885>>,
             <<4888, 4954>>, <<4992, 5007>>, <<5024, 5109>>, <<5112, 5117>>, <<5121, 5740>>,
             <<5743, 5759>>, <<5761, 5786>>, <<5792, 5866>>, <<5870, 5880>>, <<5888, 5905>>,
             <<5919, 5937>>, <<5952, 5969>>, <<5984, 5996>>, <<5998, 6000>>, <<6016, 6067>>,
             <<6103, 6103>>, <<6108, 6108>>, <<6176, 6264>>, <<6272, 6312>>, <<6314, 6314>>,
             <<6320, 6389>>, <<6400, 6430>>, <<6480, 6509>>, <<6512, 6516>>, <<6528, 6571>>,
             <<6576, 6601>>, <<6656, 6678>>, <<6688, 6740>>, <<6823, 6823>>, <<6917, 6963>>,
             <<6981, 6988>>, <<7043, 7072>>, <<7086, 7087>>, <<7098, 7141>>, <<7168, 7203>>,
             <<7245, 7247>>, <<7258, 7293>>, <<7296, 7304>>, <<7312, 7354>>, <<7357, 7359>>,
             <<7401, 7404>>, <<7406, 7411>>, <<7413, 7414>>, <<7418, 7418>>, <<7424, 7615>>,
             <<7680, 7957>>, <<7960, 7965>>, <<7968, 8005>>, <<8008, 8013>>, <<8016, 8023>>,
             <<8025, 8025>>, <<8027, 8027>>, <<8029, 8029>>, <<8031, 8061>>, <<8064, 8116>>,
             <<8118, 8124>>, <<8126, 8126>>, <<8130, 8132>>, <<8134, 8140>>, <<8144, 8147>>,
             <<8150, 8155>>, <<8160, 8172>>, <<8178, 8180>>, <<8182, 8188>>, <<8305, 8305>>,
             <<8319, 8319>>, <<8336, 8348>>, <<8450, 8450>>, <<8455, 8455>>, <<8458, 8467>>,
             <<8469, 8469>>, <<8472, 8477>>, <<8484, 8484>>, <<8486, 8486>>, <<8488, 8488>>,
             <<8490, 8505>>, <<8508, 8511>>, <<8517, 8521>>, <<8526, 8526>>, <<8544, 8584>>,
             <<11264, 11492>>, <<11499, 11502>>, <<11506, 11507>>, <<11520, 11557>>,
             <<11559, 11559>>, <<11565, 11565>>, <<11568, 11623>>, <<11631, 11631>>,
             <<11648, 11670>>, <<11680, 11686>>, <<11688, 11694>>, <<11696, 11702>>,
             <<11704, 11710>>, <<11712, 11718>>, <<11720, 11726>>, <<11728, 11734>>,
             <<11736, 11742>>, <<12293, 12295>>, <<12321, 12329>>, <<12337, 12341>>,
             <<12344, 12348>>, <<12353, 12438>>, <<12445, 12447>>, <<12449, 12538>>,
             <<12540, 12543>>, <<12549, 12591>>, <<12593, 12686>>, <<12704, 12735>>,
             <<12784, 12799>>, <<13312, 19903>>, <<19968, 42124>>, <<42192, 42237>>,
             <<42240, 42508>>, <<42512, 42527>>, <<42538, 42539>>, <<42560, 42606>>,
             <<42623, 42653>>, <<42656, 42735>>, <<42775, 42783>>, <<42786, 42888>>,
             <<42891, 42954>>, <<42960, 42961>>, <<42963, 42963>>, <<42965, 42969>>,
             <<42994, 43009>>, <<43011, 43013>>, <<43015, 43018>>, <<43020, 43042>>,
             <<43072, 43123>>, <<43138, 43187>>, <<43250, 43255>>, <<43259, 43259>>,
             <<43261, 43262>>, <<43274, 43301>>, <<43312, 43334>>, <<43360, 43388>>,
             <<43396, 43442>>, <<43471, 43471>>, <<43488, 43492>>, <<43494, 43503>>,
             <<43514, 43518>>, <<43520, 43560>>, <<43584, 43586>>, <<43588, 43595>>,
             <<43616, 43638>>, <<43642, 43642>>, <<43646, 43695>>, <<43697, 43697>>,
             <<43701, 43702>>, <<43705, 43709>>, <<43712, 43712>>, <<43714, 43714>>,
             <<43739, 43741>>, <<43744, 43754>>, <<43762, 43764>>, <<43777, 43782>>,
             <<43785, 43790>>, <<43793, 43798>>, <<43808, 43814>>, <<43816, 43822>>,
             <<43824, 43866>>, <<43868, 43881>>, <<43888, 44002>>, <<44032, 55203>>,
             <<55216, 55238>>, <<55243, 55291>>, <<63744, 64109>>, <<64112, 64217>>,
             <<64256, 64262>>, <<64275, 64279>>, <<64285, 64285>>, <<64287, 64296>>,
             <<64298, 64310>>, <<64312, 64316>>, <<64318, 64318>>, <<64320, 64321>>,
             <<64323, 64324>>, <<64326, 64433>>, <<64467, 64605>>, <<64612, 64829>>,
             <<64848, 64911>>, <<64914, 64967>>, <<65008, 65017>>, <<65137, 65137>>,
             <<65139, 65139>>, <<65143, 65143>>, <<65145, 65145>>, <<65147, 65147>>,
             <<65149, 65149>>, <<65151, 65276>>, <<65313, 65338>>, <<65345, 65370>>,
             <<65382, 65437>>, <<65440, 65470>>, <<65474, 65479>>, <<65482, 65487>>,
             <<65490, 65495>>, <<65498, 65500>>, <<65536, 65547>>, <<65549, 65574>>,
             <<65576, 65594>>, <<65596, 65597>>, <<65599, 65613>>, <<65616, 65629>>,
             <<65664, 65786>>, <<65856, 65908>>, <<66176, 66204>>, <<66208, 66256>>,
             <<66304, 66335>>, <<66349, 66378>>, <<66384, 66421>>, <<66432, 66461>>,
             <<66464, 66499>>, <<66504, 66511>>, <<66513, 66517>>, <<66560, 66717>>,
             <<66736, 66771>>, <<66776, 66811>>, <<66816, 66855>>, <<66864, 66915>>,
             <<66928, 66938>>, <<66940, 66954>>, <<66956, 66962>>, <<66964, 66965>>,
             <<66967, 66977>>, <<66979, 66993>>, <<66995, 67001>>, <<67003, 67004>>,
             <<67072, 67382>>, <<67392, 67413>>, <<67424, 67431>>, <<67456, 67461>>,
             <<67463, 67504>>, <<67506, 67514>>, <<67584, 67589>>, <<67592, 67592>>,
             <<67594, 67637>>, <<67639, 67640>>, <<67644, 67644>>, <<67647, 67669>>,
             <<67680, 67702>>, <<67712, 67742>>, <<67808, 67826>>, <<67828, 67829>>,
             <<67840, 67861>>, <<67872, 67897>>, <<67968, 68023>>, <<68030, 68031>>,
             <<68096, 68096>>, <<68112, 68115>>, <<68117, 68119>>, <<68121, 68149>>,
             <<68192, 68220>>, <<68224, 68252>>, <<68288, 68295>>, <<68297, 68324>>,
             <<68352, 68405>>, <<68416, 68437>>, <<68448, 68466>>, <<68480, 68497>>,
             <<68608, 68680>>, <<68736, 68786>>, <<68800, 68850>>, <<68864, 68899>>,
             <<69248, 69289>>, <<69296, 69297>>, <<69376, 69404>>, <<69415, 69415>>,
             <<69424, 69445>>, <<69488, 69505>>, <<69552, 69572>>, <<69600, 69622>>,
             <<69635, 69687>>, <<69745, 69746>>, <<69749, 69749>>, <<69763, 69807>>,
             <<69840, 69864>>, <<69891, 69926>>, <<69956, 69956>>, <<69959, 69959>>,
             <<69968, 70002>>, <<70006, 70006>>, <<70019, 70066>>, <<70081, 70084>>,
             <<70106, 70106>>, <<70108, 70108>>, <<70144, 70161>>, <<70163, 70187>>,
             <<70272, 70278>>, <<70280, 70280>>, <<70282, 70285>>, <<70287, 70301>>,
             <<70303, 70312>>, <<70320, 70366>>, <<70405, 70412>>, <<70415, 70416>>,
             <<70419, 70440>>, <<70442, 70448>>, <<70450, 70451>>, <<70453, 70457>>,
             <<70461, 70461>>, <<70480, 70480>>, <<70493, 70497>>, <<70656, 70708>>,
             <<70727, 70730>>, <<70751, 70753>>, <<70784, 70831>>, <<70852, 70853>>,
             <<70855, 70855>>, <<71040, 71086>>, <<71128, 71131>>, <<71168, 71215>>,
             <<71236, 71236>>, <<71296, 71338>>, <<71352, 71352>>, <<71424, 71450>>,
             <<71488, 71494>>, <<71680, 71723>>, <<71840, 71903>>, <<71935, 71942>>,
             <<71945, 71945>>, <<71948, 71955>>, <<71957, 71958>>, <<71960, 71983>>,
             <<71999, 71999>>, <<72001, 72001>>, <<72096, 72103>>, <<72106, 72144>>,
             <<72161, 72161>>, <<72163, 72163>>, <<72192, 72192>>, <<72203, 72242>>,
             <<72250, 72250>>, <<72272, 72272>>, <<72284, 72329>>, <<72349, 72349>>,
             <<72368, 72440>>, <<72704, 72712>>, <<72714, 72750>>, <<72768, 72768>>,
             <<72818, 72847>>, <<72960, 72966>>, <<72968, 72969>>, <<72971, 73008>>,
             <<73030, 73030>>, <<73056, 73061>>, <<73063, 73064>>, <<73066, 73097>>,
             <<73112, 73112>>, <<73440, 73458>>, <<73648, 73648>>, <<73728, 74649>>,
             <<74752, 74862>>, <<74880, 75075>>, <<77712, 77808>>, <<77824, 78894>>,
             <<82944, 83526>>, <<92160, 92728>>, <<92736, 92766>>, <<92784, 92862>>,
             <<92880, 92909>>, <<92928, 92975>>, <<92992, 92995>>, <<93027, 93047>>,
             <<93053, 93071>>, <<93760, 93823>>, <<93952, 94026>>, <<94032, 94032>>,
             <<94099, 94111>>, <<94176, 94177>>, <<94179, 94179>>, <<94208, 100343>>,
             <<100352, 101589>>, <<101632, 101640>>, <<110576, 110579>>, <<110581, 110587>>,
             <<110589, 110590>>, <<110592, 110882>>, <<110928, 110930>>, <<110948, 110951>>,
             <<110960, 111355>>, <<113664, 113770>>, <<113776, 113788>>, <<113792, 113800>>,
             <<113808, 113817>>, <<119808, 119892>>, <<119894, 119964>>, <<119966, 119967>>,
             <<119970, 119970>>, <<119973, 119974>>, <<119977, 119980>>, <<119982, 119993>>,
             <<119995, 119995>>, <<119997, 120003>>, <<120005, 120069>>, <<120071, 120074>>,
             <<120077, 120084>>, <<120086, 120092>>, <<120094, 120121>>, <<120123, 120126>>,
             <<120128, 120132>>, <<120134, 120134>>, <<120138, 120144>>, <<120146, 120485>>,
             <<120488, 120512>>, <<120514, 120538>>, <<120540, 120570>>, <<120572, 120596>>,
             <<120598, 120628>>, <<120630, 120654>>, <<120656, 120686>>, <<120688, 120712>>,
             <<120714, 120744>>, <<120746, 120770>>, <<120772, 120779>>, <<122624, 122654>>,
             <<123136, 123180>>, <<123191, 123197>>, <<123214, 123214>>, <<123536, 123565>>,
             <<123584, 123627>>, <<124896, 124902>>, <<124904, 124907>>, <<124909, 124910>>,
             <<124912, 124926>>, <<124928, 125124>>, <<125184, 125251>>, <<125259, 125259>>,
             <<126464, 126467>>, <<126469, 126495>>, <<126497, 126498>>, <<126500, 126500>>,
             <<126503, 126503>>, <<126505, 126514>>, <<126516, 126519>>, <<126521, 126521>>,
             <<126523, 126523>>, <<126530, 126530>>, <<126535, 126535>>, <<126537, 126537>>,
             <<126539, 126539>>, <<126541, 126543>>, <<126545, 126546>>, <<126548, 126548>>,
             <<126551, 126551>>, <<126553, 126553>>, <<126555, 126555>>, <<126557, 126557>>,
             <<126559, 126559>>, <<126561, 126562>>, <<126564, 126564>>, <<126567, 126570>>,
             <<126572, 126578>>, <<126580, 126583>>, <<126585, 126588>>, <<126590, 126590>>,
             <<126592, 126601>>, <<126603, 126619>>, <<126625, 126627>>, <<126629, 126633>>,
             <<126635, 126651>>, <<131072, 173791>>, <<173824, 177976>>, <<177984, 178205>>,
             <<178208, 183969>>, <<183984, 191456>>, <<194560, 195101>>, <<196608, 201546>> >>,
           <<
             <<48, 57>>, <<183, 183>>, <<768, 879>>, <<903, 903>>, <<1155, 1159>>, <<1425, 1469>>,
             <<1471, 1471>>, <<1473, 1474>>, <<1476, 1477>>, <<1479, 1479>>, <<1552, 1562>>,
             <<1611, 1641>>, <<1648, 1648>>, <<1750, 1756>>, <<1759, 1764>>, <<1767, 1768>>,
             <<1770, 1773>>, <<1776, 1785>>, <<1809, 1809>>, <<1840, 1866>>, <<1958, 1968>>,
             <<1984, 1993>>, <<2027, 2035>>, <<2045, 2045>>, <<2070, 2073>>, <<2075, 2083>>,
             <<2085, 2087>>, <<2089, 2093>>, <<2137, 2139>>, <<2200, 2207>>, <<2250, 2273>>,
             <<2275, 2307>>, <<2362, 2364>>, <<2366, 2383>>, <<2385, 2391>>, <<2402, 2403>>,
             <<2406, 2415>>, <<2433, 2435>>, <<2492, 2492>>, <<2494, 2500>>, <<2503, 2504>>,
             <<2507, 2509>>, <<2519, 2519>>, <<2530, 2531>>, <<2534, 2543>>, <<2558, 2558>>,
             <<2561, 2563>>, <<2620, 2620>>, <<2622, 2626>>, <<2631, 2632>>, <<2635, 2637>>,
             <<2641, 2641>>, <<2662, 2673>>, <<2677, 2677>>, <<2689, 2691>>, <<2748, 2748>>,
             <<2750, 2757>>, <<2759, 2761>>, <<2763, 2765>>, <<2786, 2787>>, <<2790, 2799>>,
             <<2810, 2815>>, <<2817, 2819>>, <<2876, 2876>>, <<2878, 2884>>, <<2887, 2888>>,
             <<2891, 2893>>, <<2901, 2903>>, <<2914, 2915>>, <<2918, 2927>>, <<2946, 2946>>,
             <<3006, 3010>>, <<3014, 3016>>, <<3018, 3021>>, <<3031, 3031>>, <<3046, 3055>>,
             <<3072, 3076>>, <<3132, 3132>>, <<3134, 3140>>, <<3142, 3144>>, <<3146, 3149>>,
             <<3157, 3158>>, <<3170, 3171>>, <<3174, 3183>>, <<3201, 3203>>, <<3260, 3260>>,
             <<3262, 3268>>, <<3270, 3272>>, <<3274, 3277>>, <<3285, 3286>>, <<3298, 3299>>,
             <<3302, 3311>>, <<3328, 3331>>, <<3387, 3388>>, <<3390, 3396>>, <<3398, 3400>>,
             <<3402, 3405>>, <<3415, 3415>>, <<3426, 3427>>, <<3430, 3439>>, <<3457, 3459>>,
             <<3530, 3530>>, <<3535, 3540>>, <<3542, 3542>>, <<3544, 3551>>, <<3558, 3567>>,
             <<3570, 3571>>, <<3633, 3633>>, <<3635, 3642>>, <<3655, 3662>>, <<3664, 3673>>,
             <<3761, 3761>>, <<3763, 3772>>, <<3784, 3789>>, <<3792, 3801>>, <<3864, 3865>>,
             <<3872, 3881>>, <<3893, 3893>>, <<3895, 3895>>, <<3897, 3897>>, <<3902, 3903>>,
             <<3953, 3972>>, <<3974, 3975>>, <<3981, 3991>>, <<3993, 4028>>, <<4038, 4038>>,
             <<4139, 4158>>, <<4160, 4169>>, <<4182, 4185>>, <<4190, 4192>>, <<4194, 4196>>,
             <<4199, 4205>>, <<4209, 4212>>, <<4226, 4237>>, <<4239, 4253>>, <<4957, 4959>>,
             <<4969, 4977>>, <<5906, 5909>>, <<5938, 5940>>, <<5970, 5971>>, <<6002, 6003>>,
             <<6068, 6099>>, <<6109, 6109>>, <<6112, 6121>>, <<6155, 6157>>, <<6159, 6169>>,
             <<6313, 6313>>, <<6432, 6443>>, <<6448, 6459>>, <<6470, 6479>>, <<6608, 6618>>,
             <<6679, 6683>>, <<6741, 6750>>, <<6752, 6780>>, <<6783, 6793>>, <<6800, 6809>>,
             <<6832, 6845>>, <<6847, 6862>>, <<6912, 6916>>, <<6964, 6980>>, <<6992, 7001>>,
             <<7019, 7027>>, <<7040, 7042>>, <<7073, 7085>>, <<7088, 7097>>, <<7142, 7155>>,
             <<7204, 7223>>, <<7232, 7241>>, <<7248, 7257>>, <<7376, 7378>>, <<7380, 7400>>,
             <<7405, 7405>>, <<7412, 7412>>, <<7415, 7417>>, <<7616, 7679>>, <<8255, 8256>>,
             <<8276, 8276>>, <<8400, 8412>>, <<8417, 8417>>, <<8421, 8432>>, <<11503, 11505>>,
             <<11647, 11647>>, <<11744, 11775>>, <<12330, 12335>>, <<12441, 12442>>,
             <<42528, 42537>>, <<42607, 42607>>, <<42612, 42621>>, <<42654, 42655>>,
             <<42736, 42737>>, <<43010, 43010>>, <<43014, 43014>>, <<43019, 43019>>,
             <<43043, 43047>>, <<43052, 43052>>, <<43136, 43137>>, <<43188, 43205>>,
             <<43216, 43225>>, <<43232, 43249>>, <<43263, 43273>>, <<43302, 43309>>,
             <<43335, 43347>>, <<43392, 43395>>, <<43443, 43456>>, <<43472, 43481>>,
             <<43493, 43493>>, <<43504, 43513>>, <<43561, 43574>>, <<43587, 43587>>,
             <<43596, 43597>>, <<43600, 43609>>, <<43643, 43645>>, <<43696, 43696>>,
             <<43698, 43700>>, <<43703, 43704>>, <<43710, 43711>>, <<43713, 43713>>,
             <<43755, 43759>>, <<43765, 43766>>, <<44003, 44010>>, <<44012, 44013>>,
             <<44016, 44025>>, <<64286, 64286>>, <<65024, 65039>>, <<65056, 65071>>,
             <<65075, 65076>>, <<65101, 65103>>, <<65296, 65305>>, <<65343, 65343>>,
             <<65438, 65439>>, <<66045, 66045>>, <<66272, 66272>>, <<66422, 66426>>,
             <<66720, 66729>>, <<68097, 68099>>, <<68101, 68102>>, <<68108, 68111>>,
             <<68152, 68154>>, <<68159, 68159>>, <<68325, 68326>>, <<68900, 68903>>,
             <<68912, 68921>>, <<69291, 69292>>, <<69446, 69456>>, <<69506, 69509>>,
             <<69632, 69634>>, <<69688, 69702>>, <<69734, 69744>>, <<69747, 69748>>,
             <<69759, 69762>>, <<69808, 69818>>, <<69826, 69826>>, <<69872, 69881>>,
             <<69888, 69890>>, <<69927, 69940>>, <<69942, 69951>>, <<69957, 69958>>,
             <<70003, 70003>>, <<70016, 70018>>, <<70067, 70080>>, <<70089, 70092>>,
             <<70094, 70105>>, <<70188, 70199>>, <<70206, 70206>>, <<70367, 70378>>,
             <<70384, 70393>>, <<70400, 70403>>, <<70459, 70460>>, <<70462, 70468>>,
             <<70471, 70472>>, <<70475, 70477>>, <<70487, 70487>>, <<70498, 70499>>,
             <<70502, 70508>>, <<70512, 70516>>, <<70709, 70726>>, <<70736, 70745>>,
             <<70750, 70750>>, <<70832, 70851>>, <<70864, 70873>>, <<71087, 71093>>,
             <<71096, 71104>>, <<71132, 71133>>, <<71216, 71232>>, <<71248, 71257>>,
             <<71339, 71351>>, <<71360, 71369>>, <<71453, 71467>>, <<71472, 71481>>,
             <<71724, 71738>>, <<71904, 71913>>, <<71984, 71989>>, <<71991, 71992>>,
             <<71995, 71998>>, <<72000, 72000>>, <<72002, 72003>>, <<72016, 72025>>,
             <<72145, 72151>>, <<72154, 72160>>, <<72164, 72164>>, <<72193, 72202>>,
             <<72243, 72249>>, <<72251, 72254>>, <<72263, 72263>>, <<72273, 72283>>,
             <<72330, 72345>>, <<72751, 72758>>, <<72760, 72767>>, <<72784, 72793>>,
             <<72850, 72871>>, <<72873, 72886>>, <<73009, 73014>>, <<73018, 73018>>,
             <<73020, 73021>>, <<73023, 73029>>, <<73031, 73031>>, <<73040, 73049>>,
             <<73098, 73102>>, <<73104, 73105>>, <<73107, 73111>>, <<73120, 73129>>,
             <<73459, 73462>>, <<92768, 92777>>, <<92864, 92873>>, <<92912, 92916>>,
             <<92976, 92982>>, <<93008, 93017>>, <<94031, 94031>>, <<94033, 94087>>,
             <<94095, 94098>>, <<94180, 94180>>, <<94192, 94193>>, <<113821, 113822>>,
             <<118528, 118573>>, <<118576, 118598>>, <<119141, 119145>>, <<119149, 119154>>,
             <<119163, 119170>>, <<119173, 119179>>, <<119210, 119213>>, <<119362, 119364>>,
             <<120782, 120831>>, <<121344, 121398>>, <<121403, 121452>>, <<121461, 121461>>,
             <<121476, 121476>>, <<121499, 121503>>, <<121505, 121519>>, <<122880, 122886>>,
             <<122888, 122904>>, <<122907, 122913>>, <<122915, 122916>>, <<122918, 122922>>,
             <<123184, 123190>>, <<123200, 123209>>, <<123566, 123566>>, <<123628, 123641>>,
             <<125136, 125142>>, <<125252, 125258>>, <<125264, 125273>>, <<130032, 130041>>,
             <<917760, 917999>> >>,
           {
               "0", "\\u0660", "\\u06f0", "\\u07c0", "\\u0966", "\\u09e6", "\\u0a66", "\\u0ae6", "\\u0b66",
               "\\u0be6", "\\u0c66", "\\u0ce6", "\\u0d66", "\\u0de6", "\\u0e50", "\\u0ed0", "\\u0f20",
               "\\u1040", "\\u1090", "\\u17e0", "\\u1810", "\\u1946", "\\u19d0", "\\u1a80", "\\u1a90",
               "\\u1b50", "\\u1bb0", "\\u1c40", "\\u1c50", "\\ua620", "\\ua8d0", "\\ua900", "\\ua9d0",
               "\\ua9f0", "\\uaa50", "\\uabf0", "\\uff10", "\\U000104a0", "\\U00010d30", "\\U00011066",
               "\\U000110f0", "\\U00011136", "\\U000111d0", "\\U000112f0", "\\U00011450", "\\U000114d0",
               "\\U00011650", "\\U000116c0", "\\U00011730", "\\U000118e0", "\\U00011950", "\\U00011c50",
               "\\U00011d50", "\\U00011da0", "\\U00016a60", "\\U00016ac0", "\\U00016b50", "\\U0001d7ce",
               "\\U0001d7d8", "\\U0001d7e2", "\\U0001d7ec", "\\U0001d7f6", "\\U0001e140", "\\U0001e2f0",
               "\\U0001e950", "\\U0001fbf0" },
           Latin1)

\* what re.sub puts in for a match `whole`: the parts of the compiled
\* template, the match for each reference to it
expand_template(template, whole) ==
    LET part(p) == IF p.group THEN whole ELSE p.text
        f[n \in 0..Len(template.parts)] ==
            IF n = 0 THEN <<>> ELSE f[n - 1] \o part(template.parts[n])
    IN [raised |-> template.raised,
        text |-> IF template.raised # None THEN <<>> ELSE f[Len(template.parts)]]

(***************************************************************************)
(* scripts/workflow_versions.py: the GitHub API layer and the tag resolver *)
(*                                                                         *)
(* A function that calls the API yields [raised, ret, calls]: the          *)
(* exception that leaves it (None when it returns), its return value, and  *)
(* the URLs it requested, in order.  `api` is what GitHub and the network  *)
(* answer to each request.  Tags and SHAs are texts; one that is None or   *)
(* empty (both falsy, and equal to no tag and no SHA) is Missing.          *)
(***************************************************************************)
\* parsed JSON: JSON("dict", d), JSON("list", l), and null
JSON(t, v) == [t |-> t, v |-> v]

JNull == JSON("null", <<>>)

EmptyDict == [key \in {} |-> JNull]

\* d.get(key, default)
DictGet(d, key, default) == IF key \in DOMAIN d THEN d[key] ELSE default

Missing == <<>>

\* what one request meets: the try block raising `kind` (urlopen: HTTPError
\* with a status code, URLError, TimeoutError, RemoteDisconnected when the
\* server closes the connection without an answer; resp.read():
\* ConnectionResetError, IncompleteRead; json.loads: ValueError for a number
\* with too many digits, RecursionError for a body nested too deep), or a
\* body that is or is not UTF-8 and is or is not JSON text
GhResponse(kind, code, utf8, json, value) ==
    [kind |-> kind, code |-> code, utf8 |-> utf8, json |-> json, value |-> value]

\* the classes an exception is an instance of
ExcBases(cls) ==
    CASE cls = "HTTPError"          -> {"HTTPError", "URLError", "OSError", "Exception"}
      [] cls = "URLError"           -> {"URLError", "OSError", "Exception"}
      [] cls = "TimeoutError"       -> {"TimeoutError", "OSError", "Exception"}
      [] cls = "JSONDecodeError"    -> {"JSONDecodeError", "ValueError", "Exception"}
      [] cls = "UnicodeDecodeError" -> {"UnicodeDecodeError", "UnicodeError", "ValueError",
                                        "Exception"}
      [] cls = "UnicodeEncodeError" -> {"UnicodeEncodeError", "UnicodeError", "ValueError",
                                        "Exception"}
      [] cls = "InvalidURL"         -> {"InvalidURL", "HTTPException", "Exception"}
      [] cls = "TypeError"          -> {"TypeError", "Exception"}
      [] cls = "RemoteDisconnected" -> {"RemoteDisconnected", "ConnectionResetError",
                                        "ConnectionError", "BadStatusLine", "HTTPException",
                                        "OSError", "Exception"}
      [] cls = "ConnectionResetError" -> {"ConnectionResetError", "ConnectionError",
                                          "OSError", "Exception"}
      [] cls = "IncompleteRead"     -> {"IncompleteRead", "HTTPException", "Exception"}
      [] cls = "ValueError"         -> {"ValueError", "Exception"}
      [] cls = "RecursionError"     -> {"RecursionError", "RuntimeError", "Exception"}
      [] cls = "AttributeError"     -> {"AttributeError", "Exception"}
      [] cls = "OSError"            -> {"OSError", "Exception"}
      [] cls = "FileNotFoundError"  -> {"FileNotFoundError", "OSError", "Exception"}
      [] cls = "PermissionError"    -> {"PermissionError", "OSError", "Exception"}
      [] cls = "TimeoutExpired"     -> {"TimeoutExpired", "SubprocessError", "Exception"}
      [] cls = "CalledProcessError" -> {"CalledProcessError", "SubprocessError",
                                        "Exception"}

\* the answer to a request: a URL is <<repo_slug, endpoint, last segment>>
GhRespond(api, url) ==
    CASE url[2] = "/git/matching-refs/tags/"  -> api.refs
      [] url[2] = "/git/tags/"                -> api.peel
      [] url[2] = "/tags?per_page=100&page="  -> api.pages[url[3]]
      [] url[2] = "/releases/latest"          -> api.release
      [] url[2] = "/tags?per_page=30"         -> api.tags30
      [] url[2] = "/contents/"                ->
             IF EndsWith(url[3], Chars("action.yml")) THEN api.action_yml
             ELSE api.action_yaml

\* the characters str.encode("ascii") takes

\* [\x00-\x20\x7f], the characters http.client refuses in a request line
_contains_disallowed_url_pchar_re == {Latin1[n + 1] : n \in 0..32} \cup {Latin1[128]}

\* what urlopen makes of the URL: Request() drops the blanks at its end and
\* the fragment after its last "#", and the connection refuses to write a
\* request line with a blank or control character (InvalidURL) or with a
\* character that is not ASCII (UnicodeEncodeError); a repo_slug has no "#"
GhRequest(url) ==
    LET last == IF url[2] = "/tags?per_page=100&page=" THEN Str(url[3])
                ELSE IF url[2] \in {"/releases/latest", "/tags?per_page=30"} THEN <<>>
                ELSE url[3]
        hash(seg) == Max({0} \cup {k \in 1..Len(seg) : seg[k] = "#"})
        cut(seg) == IF hash(seg) = 0 THEN seg ELSE Slice(seg, 1, hash(seg) - 1)
        \* the last segment as it is sent
        sent == cut(RStrip(last, WS))
        path == url[1] \o Chars(url[2]) \o sent
        Ascii == {Latin1[n + 1] : n \in 0..127}
        refused ==
            IF \E k \in 1..Len(path) : path[k] \in _contains_disallowed_url_pchar_re
            THEN "InvalidURL"
            ELSE IF \E k \in 1..Len(path) : path[k] \notin Ascii THEN "UnicodeEncodeError"
            ELSE None
    IN [raised |-> refused,
        url |-> IF last = sent THEN url ELSE <<url[1], url[2], sent>>]

_gh_api(api, url) ==
    LET \* the exception the try block ends with, None when it returns
        raises(resp) ==
            CASE resp.kind # "body"                         -> resp.kind
              [] resp.kind = "body" /\ ~resp.utf8           -> "UnicodeDecodeError"
              [] resp.kind = "body" /\ resp.utf8 /\ ~resp.json -> "JSONDecodeError"
              [] OTHER                                      -> None
        \* the except clauses
        handled == {"HTTPError", "URLError", "TimeoutError", "JSONDecodeError"}
        outcome(req, resp, exc) ==
            IF exc = None THEN [raised |-> None, ret |-> resp.value, calls |-> <<req>>]
            ELSE IF ExcBases(exc) \cap handled # {}
                 THEN [raised |-> None, ret |-> JNull, calls |-> <<req>>]
            ELSE [raised |-> exc, ret |-> JNull, calls |-> <<req>>]
        request(req, resp) == outcome(req, resp, raises(resp))
        \* nothing is sent when the URL is refused
        urlopen(req) ==
            IF req.raised # None THEN [raised |-> req.raised, ret |-> JNull, calls |-> <<>>]
            ELSE request(req.url, GhRespond(api, req.url))
    IN urlopen(GhRequest(url))

_peel_to_commit(api, repo_slug, tag_obj_sha) ==
    LET got(data) ==
            [raised |-> data.raised,
             ret |-> IF data.raised = None /\ data.ret.t = "dict"
                     THEN DictGet(DictGet(data.ret.v, "object", EmptyDict), "sha", Missing)
                     ELSE Missing,
             calls |-> data.calls]
    IN got(_gh_api(api, <<repo_slug, "/git/tags/", tag_obj_sha>>))

\* str.removeprefix
RemovePrefix(t, p) == IF StartsWith(t, p) THEN Slice(t, Len(p) + 1, Len(t)) ELSE t

_tag_points_at(api, repo_slug, tag_name, sha) ==
    LET peeled(calls, commit) ==
            [raised |-> commit.raised,
             ret |-> commit.raised = None /\ commit.ret = sha,
             calls |-> calls \o commit.calls]
        loop(refs, calls) ==
            LET f[k \in 1..(Len(refs) + 1)] ==
                    LET visit(ref_name, obj) ==
                            IF ref_name # tag_name THEN f[k + 1]
                            ELSE IF DictGet(obj, "sha", Missing) = sha
                                 THEN [raised |-> None, ret |-> TRUE, calls |-> calls]
                            ELSE IF DictGet(obj, "type", "") = "tag"
                                 THEN peeled(calls, _peel_to_commit(api, repo_slug,
                                                                    DictGet(obj, "sha", Missing)))
                            ELSE f[k + 1]
                    IN IF k > Len(refs)
                       THEN [raised |-> None, ret |-> FALSE, calls |-> calls]
                       ELSE visit(RemovePrefix(DictGet(refs[k], "ref", <<>>),
                                               <<"r", "e", "f", "s", "/", "t", "a", "g", "s", "/">>),
                                  DictGet(refs[k], "object", EmptyDict))
            IN f[1]
        got(data) ==
            IF data.raised # None \/ data.ret.t # "list"
            THEN [raised |-> data.raised, ret |-> FALSE, calls |-> data.calls]
            ELSE loop(data.ret.v, data.calls)
    IN got(_gh_api(api, <<repo_slug, "/git/matching-refs/tags/", tag_name>>))

\* range(1, 6): the pages of tags scanned
TagPages == 5

\* per_page=100
PerPage == 100

\* t.count(".")
DotCount(t) == Cardinality({k \in 1..Len(t) : t[k] = "."})

\* the sort without reverse=True: fewest dots first
sort_by_dots_ascending(matching) ==
    LET insert(acc, t) ==
            LET n == Cardinality({k \in 1..Len(acc) : DotCount(acc[k]) <= DotCount(t)})
            IN SubSeq(acc, 1, n) \o <<t>> \o SubSeq(acc, n + 1, Len(acc))
        g[n \in 0..Len(matching)] ==
            IF n = 0 THEN <<>> ELSE insert(g[n - 1], matching[n])
    IN g[Len(matching)]

\* matching.sort(key=lambda t: t.count("."), reverse=True), a stable sort
sort_by_dots(matching) ==
    LET insert(acc, t) ==
            LET n == Cardinality({k \in 1..Len(acc) : DotCount(acc[k]) >= DotCount(t)})
            IN SubSeq(acc, 1, n) \o <<t>> \o SubSeq(acc, n + 1, Len(acc))
        g[n \in 0..Len(matching)] ==
            IF n = 0 THEN <<>> ELSE insert(g[n - 1], matching[n])
    IN g[Len(matching)]

_resolve_tag_from_tags_api(api, repo_slug, sha) ==
    LET hit(tag_info) ==
            DictGet(DictGet(tag_info, "commit", EmptyDict), "sha", Missing) = sha
        names(data) ==
            [k \in 1..Len(data) |-> DictGet(data[k], "name", <<>>)]
        f[page \in 1..(TagPages + 1)] ==
            LET after(calls, rest) ==
                    [raised |-> rest.raised, ret |-> rest.ret, calls |-> calls \o rest.calls]
                found(data, calls, matching) ==
                    IF matching # <<>>
                    THEN [raised |-> None, ret |-> sort_by_dots(matching)[1], calls |-> calls]
                    ELSE IF Len(data) < PerPage
                         THEN [raised |-> None, ret |-> Missing, calls |-> calls]
                    ELSE after(calls, f[page + 1])
                got(data) ==
                    IF data.raised # None \/ data.ret.t # "list" \/ data.ret.v = <<>>
                    THEN [raised |-> data.raised, ret |-> Missing, calls |-> data.calls]
                    ELSE found(data.ret.v, data.calls,
                               names(SelectSeq(data.ret.v, hit)))
            IN IF page > TagPages THEN [raised |-> None, ret |-> Missing, calls |-> <<>>]
               ELSE got(_gh_api(api, <<repo_slug, "/tags?per_page=100&page=", page>>))
    IN f[1]

\* _resolve_tag without strategy 1: every resolution scans the tag pages
_resolve_tag_scan_only(api, owner_repo, sha, hint_tag) ==
    LET slug(parts) == parts[1] \o <<"/">> \o parts[2]
    IN _resolve_tag_from_tags_api(api, slug(SplitOn(owner_repo, "/")), sha)

_resolve_tag(api, owner_repo, sha, hint_tag) ==
    LET strategy2(repo_slug, calls) ==
            LET after(rest) ==
                    [raised |-> rest.raised, ret |-> rest.ret, calls |-> calls \o rest.calls]
            IN after(_resolve_tag_from_tags_api(api, repo_slug, sha))
        verified(repo_slug, points_at) ==
            IF points_at.raised # None
            THEN [raised |-> points_at.raised, ret |-> Missing, calls |-> points_at.calls]
            ELSE IF points_at.ret
                 THEN [raised |-> None, ret |-> hint_tag, calls |-> points_at.calls]
            ELSE strategy2(repo_slug, points_at.calls)
        resolve(repo_slug) ==
            IF hint_tag # Missing
            THEN verified(repo_slug, _tag_points_at(api, repo_slug, hint_tag, sha))
            ELSE strategy2(repo_slug, <<>>)
        slug(parts) == parts[1] \o <<"/">> \o parts[2]
    IN resolve(slug(SplitOn(owner_repo, "/")))

\* _semver_re = ^v?\d+\.\d+, as _semver_re.match(tag)
_semver_re(tag) ==
    LET digits == Digit
        number(s, d) == d > s /\ d + 1 <= Len(tag) /\ tag[d] = "." /\ tag[d + 1] \in digits
        from(s) == number(s, SkipChars(tag, s, digits))
    IN from(IF tag # <<>> /\ tag[1] = "v" THEN 2 ELSE 1)

_latest_tag(api, repo_slug) ==
    LET first(names) ==
            LET S == {k \in 1..Len(names) : _semver_re(names[k])}
            IN IF S = {} THEN Missing ELSE names[Min(S)]
        got2(calls, data) ==
            [raised |-> data.raised,
             ret |-> IF data.raised = None /\ data.ret.t = "list"
                     THEN first([k \in 1..Len(data.ret.v) |->
                                   DictGet(data.ret.v[k], "name", <<>>)])
                     ELSE Missing,
             calls |-> calls \o data.calls]
        got1(data) ==
            IF data.raised # None
            THEN [raised |-> data.raised, ret |-> Missing, calls |-> data.calls]
            ELSE IF data.ret.t = "dict" /\ _semver_re(DictGet(data.ret.v, "tag_name", <<>>))
                 THEN [raised |-> None, ret |-> DictGet(data.ret.v, "tag_name", <<>>),
                       calls |-> data.calls]
            ELSE got2(data.calls, _gh_api(api, <<repo_slug, "/tags?per_page=30", "">>))
    IN got1(_gh_api(api, <<repo_slug, "/releases/latest", "">>))

(***************************************************************************)
(* One call into the resolver, against every combination of answers        *)
(***************************************************************************)
\* the SHA a `uses:` line pins, another commit, an annotated tag object
ShaPinned == [k \in 1..40 |-> "a"]

ShaOther == [k \in 1..40 |-> "b"]

ShaTagObject == [k \in 1..40 |-> "c"]

\* requests that fail: rate limit, not found, server error, no network,
\* timeout, a connection closed before or while the answer is read, a body
\* that is cut short, that is not UTF-8, that is not JSON, that holds a
\* number with too many digits, that is nested too deep
GhFailures ==
    { GhResponse("HTTPError", 403, TRUE, TRUE, JNull),
      GhResponse("HTTPError", 404, TRUE, TRUE, JNull),
      GhResponse("HTTPError", 500, TRUE, TRUE, JNull),
      GhResponse("URLError", 0, TRUE, TRUE, JNull),
      GhResponse("TimeoutError", 0, TRUE, TRUE, JNull),
      GhResponse("RemoteDisconnected", 0, TRUE, TRUE, JNull),
      GhResponse("ConnectionResetError", 200, TRUE, TRUE, JNull),
      GhResponse("IncompleteRead", 200, TRUE, TRUE, JNull),
      GhResponse("ValueError", 200, TRUE, TRUE, JNull),
      GhResponse("RecursionError", 200, TRUE, TRUE, JNull),
      GhResponse("body", 200, FALSE, FALSE, JNull),
      GhResponse("body", 200, TRUE, FALSE, JNull) }

\* a 200 response whose body is the JSON text of `value`
GhOk(value) == GhResponse("body", 200, TRUE, TRUE, value)

\* answers to git/matching-refs/tags/v4
GhRefsResponses ==
    LET ref(tag, sha, type) ==
            [ref |-> <<"r", "e", "f", "s", "/", "t", "a", "g", "s", "/">> \o tag,
             object |-> [sha |-> sha, type |-> type]]
        v4 == <<"v", "4">>
        v41 == <<"v", "4", ".", "1">>
    IN GhFailures \cup
       { GhOk(JSON("list", <<>>)),
         GhOk(JSON("list", <<ref(v4, ShaPinned, "commit")>>)),
         GhOk(JSON("list", <<ref(v4, ShaOther, "commit")>>)),
         GhOk(JSON("list", <<ref(v4, ShaTagObject, "tag")>>)),
         GhOk(JSON("list", <<ref(v41, ShaPinned, "commit"), ref(v4, ShaTagObject, "tag")>>)),
         GhOk(JSON("dict", [message |-> <<"N">>])) }

\* answers to git/tags/<tag object>: of the failures, not found, a
\* connection closed before the answer, and every answer with status 200
\* that fails while it is read, decoded or parsed
GhPeelResponses ==
    { r \in GhFailures : r.code \in {404, 200} \/ r.kind = "RemoteDisconnected" } \cup
    { GhOk(JSON("dict", [object |-> [sha |-> ShaPinned]])),
      GhOk(JSON("dict", [object |-> [sha |-> ShaOther]])),
      GhOk(JSON("dict", EmptyDict)),
      GhOk(JSON("list", <<>>)) }

\* answers to tags?per_page=100&page=1..5: `full` pages of PerPage tags on
\* other commits, then the page `last`, then nothing; of the failures, not
\* found, no network, and the bodies that are not UTF-8, not JSON, nested
\* too deep
GhTagPages ==
    LET tag(name, sha) == [name |-> name, commit |-> [sha |-> sha]]
        v4 == tag(<<"v", "4">>, ShaPinned)
        v41 == tag(<<"v", "4", ".", "1">>, ShaPinned)
        v412 == tag(<<"v", "4", ".", "1", ".", "2">>, ShaPinned)
        other == tag(<<"v", "3", ".", "9">>, ShaOther)
        fill(n) == [k \in 1..n |-> other]
        lasts == { r \in GhFailures :
                     \/ r.code = 404 \/ r.kind \in {"URLError", "RecursionError"}
                     \/ ~r.json } \cup
                 { GhOk(JSON("list", <<>>)),
                   GhOk(JSON("list", <<other, v4>>)),
                   GhOk(JSON("list", <<v4, v412, v41>>)),
                   GhOk(JSON("list", <<v41, v4, other>>)),
                   GhOk(JSON("list", <<other>>)),
                   GhOk(JSON("list", fill(PerPage - 1) \o <<v412>>)),
                   GhOk(JSON("dict", [message |-> <<"N">>])) }
    IN { [p \in 1..TagPages |->
            IF p <= full THEN GhOk(JSON("list", fill(PerPage)))
            ELSE IF p = full + 1 THEN last
            ELSE GhResponse("HTTPError", 404, TRUE, TRUE, JNull)] :
         full \in 0..TagPages, last \in lasts }
       \cup
       \* a full first page that ends with v4 and v4.1, and v4.1.2 on the
       \* second page
       { [p \in 1..TagPages |->
            IF p = 1 THEN GhOk(JSON("list", fill(PerPage - 2) \o <<v4, v41>>))
            ELSE IF p = 2 THEN GhOk(JSON("list", <<v412>>))
            ELSE GhResponse("HTTPError", 404, TRUE, TRUE, JNull)] }

\* answers to releases/latest and to tags?per_page=30
GhLatestResponses ==
    LET tag(name) == [name |-> name, commit |-> [sha |-> ShaOther]]
        bundle == <<"b", "-", "v", "2", ".", "1">>
        v5 == <<"v", "5", ".", "0", ".", "1">>
    IN [ release : GhFailures \cup
                   { GhOk(JSON("dict", [tag_name |-> v5])),
                     GhOk(JSON("dict", [tag_name |-> bundle])),
                     GhOk(JSON("dict", [tag_name |-> <<"5">>])),
                     GhOk(JSON("dict", EmptyDict)),
                     GhOk(JSON("list", <<>>)) },
         tags30 : GhFailures \cup
                  { GhOk(JSON("list", <<>>)),
                    GhOk(JSON("list", <<tag(bundle), tag(<<"4", ".", "2">>), tag(v5)>>)),
                    GhOk(JSON("list", <<tag(bundle)>>)),
                    GhOk(JSON("dict", [message |-> <<"N">>])) } ]

\* owner/repo as scan_workflows hands it on, with and without a sub-path
GhOwnerRepos == { <<"o", "/", "r">>, <<"o", "/", "r", "/", "i", "n", "i", "t">> }

\* the tag of the existing comment: none, v4, and two tags that cannot be
\* written in a request line: one with a letter outside ASCII, one that ends
\* in the control character DEL
GhHints == { Missing, <<"v", "4">>, <<"v", Latin1[234]>>, <<"v", "4", Latin1[128]>> }

GhInit ==
    /\ gh = [pc |-> "idle"]
    /\ LkOff /\ ch = Off /\ wf = Off /\ td = Off /\ sc = Off

\* resolved = _resolve_tag(owner_repo, sha, hint_tag=comment_tag)
GhResolveTag ==
    /\ gh.pc = "idle"
    /\ \E refs \in GhRefsResponses, peel \in GhPeelResponses, pages \in GhTagPages,
          owner_repo \in GhOwnerRepos, hint_tag \in GhHints :
         LET api == [refs |-> refs, peel |-> peel, pages |-> pages]
         IN gh' = [pc |-> "done", fn |-> "_resolve_tag", api |-> api,
                   args |-> [owner_repo |-> owner_repo, sha |-> ShaPinned,
                             hint_tag |-> hint_tag],
                   out |-> _resolve_tag(api, owner_repo, ShaPinned, hint_tag)]
    /\ UNCHANGED <<lkVars, ch, wf, td, sc>>

\* latest = _latest_tag(repo_slug)
GhLatestTag ==
    /\ gh.pc = "idle"
    /\ \E api \in GhLatestResponses :
         gh' = [pc |-> "done", fn |-> "_latest_tag", api |-> api,
                args |-> [repo_slug |-> <<"o", "/", "r">>],
                out |-> _latest_tag(api, <<"o", "/", "r">>)]
    /\ UNCHANGED <<lkVars, ch, wf, td, sc>>

GhNext == GhResolveTag \/ GhLatestTag

SpecGitHub == GhInit /\ [][GhNext]_vars

\* the hint tag's ref is verified to point at sha: the answer to
\* matching-refs lists refs/tags/<hint>, and that ref holds sha itself or is
\* an annotated tag whose tag object peels to sha
HintVerified(api, hint_tag, sha) ==
    /\ api.refs = GhOk(api.refs.value) /\ api.refs.value.t = "list"
    /\ \E k \in 1..Len(api.refs.value.v) :
         /\ api.refs.value.v[k].ref
              = <<"r", "e", "f", "s", "/", "t", "a", "g", "s", "/">> \o hint_tag
         /\ \/ api.refs.value.v[k].object.sha = sha
            \/ /\ api.refs.value.v[k].object.type = "tag"
               /\ api.peel = GhOk(api.peel.value) /\ api.peel.value.t = "dict"
               /\ "object" \in DOMAIN api.peel.value.v
               /\ api.peel.value.v.object.sha = sha

\* C3: when _resolve_tag is given a SHA and a hint tag, and the hint tag's ref
\* is verified to point at that SHA (directly or after peeling an annotated
\* tag), it returns the hint tag and requests no page of the tag list.
C3_VerifiedHintSkipsTagScan ==
    ( /\ gh.pc = "done" /\ gh.fn = "_resolve_tag"
      /\ gh.args.hint_tag # Missing
      /\ HintVerified(gh.api, gh.args.hint_tag, gh.args.sha) )
    => /\ gh.out.raised = None
       /\ gh.out.ret = gh.args.hint_tag
       /\ \A k \in 1..Len(gh.out.calls) : gh.out.calls[k][2] # "/tags?per_page=100&page="

\* a hint verified by peeling an annotated tag, returned after two requests
C3_Witness_HintVerifiedByPeeling ==
    /\ gh.pc = "done" /\ gh.fn = "_resolve_tag"
    /\ gh.args.hint_tag # Missing
    /\ HintVerified(gh.api, gh.args.hint_tag, gh.args.sha)
    /\ gh.out.ret = gh.args.hint_tag
    /\ Len(gh.out.calls) = 2

\* C4: no exception propagates out of the GitHub API layer: whatever a
\* request meets (HTTP 403, 404, another HTTP error, a network error, a
\* timeout, a malformed body), the call into the layer returns.
C4_NoExceptionLeavesApiLayer ==
    gh.pc = "done" => gh.out.raised = None

(***************************************************************************)
(* GitHub requests over time: the disk-caching wrapper _cached_gh_api that *)
(* the unit tests exercise (TestCachedGhApi), and the callers of           *)
(* workflow_versions.py, which hand their URL to _gh_api.                  *)
(***************************************************************************)
\* bound: the clock runs from 0 to MaxClock
MaxClock == 2

\* bound: number of calls in one behaviour
MaxCalls == 3

\* _cached_gh_api storing whatever _gh_api returns, None included
_cached_gh_api_storing_none(cache, ttl, now, api, url) ==
    LET store(data) ==
            [raised |-> data.raised, ret |-> data.ret, calls |-> data.calls,
             cache |-> IF data.raised = None
                       THEN [u \in DOMAIN cache \cup {url} |->
                               IF u = url THEN [timestamp |-> now, json |-> data.ret]
                               ELSE cache[u]]
                       ELSE cache]
    IN IF url \in DOMAIN cache /\ now - cache[url].timestamp < ttl
       THEN [raised |-> None, ret |-> cache[url].json, calls |-> <<>>, cache |-> cache]
       ELSE store(_gh_api(api, url))

\* _cached_gh_api(url) with the cache directory holding `cache` (url ->
\* [timestamp, json]), _CACHE_TTL = ttl and time.time() = now: a cached
\* response younger than ttl is returned without a request; anything else
\* goes to _gh_api, and what _gh_api returns is stored unless it is None
_cached_gh_api(cache, ttl, now, api, url) ==
    LET store(data) ==
            [raised |-> data.raised, ret |-> data.ret, calls |-> data.calls,
             cache |-> IF data.raised = None /\ data.ret # JNull
                       THEN [u \in DOMAIN cache \cup {url} |->
                               IF u = url THEN [timestamp |-> now, json |-> data.ret]
                               ELSE cache[u]]
                       ELSE cache]
    IN IF url \in DOMAIN cache /\ now - cache[url].timestamp < ttl
       THEN [raised |-> None, ret |-> cache[url].json, calls |-> <<>>, cache |-> cache]
       ELSE store(_gh_api(api, url))

\* _CACHE_TTL, in clock ticks: caching off, one tick, two ticks
ChTTLs == {0, 1, 2}

\* the tag objects asked about
ChShas == {ShaTagObject, ShaOther}

\* what a request for a tag object meets: not found, rate limit, the tag object
ChResponses ==
    { GhResponse("HTTPError", 404, TRUE, TRUE, JNull),
      GhResponse("HTTPError", 403, TRUE, TRUE, JNull),
      GhOk(JSON("dict", [object |-> [sha |-> ShaPinned]])) }

ChInit ==
    /\ \E ttl \in ChTTLs :
         ch = [pc |-> "run", ttl |-> ttl, now |-> 0, cache |-> EmptyDict, log |-> <<>>]
    /\ LkOff /\ gh = Off /\ wf = Off /\ td = Off /\ sc = Off

\* a call of the wrapper, as the unit tests make it
ChCachedCall ==
    /\ ch.pc = "run" /\ Len(ch.log) < MaxCalls
    /\ \E sha \in ChShas, resp \in ChResponses :
         LET url == <<(<<"o", "/", "r">>), "/git/tags/", sha>>
             out == _cached_gh_api(ch.cache, ch.ttl, ch.now, [peel |-> resp], url)
         IN ch' = [ch EXCEPT !.cache = out.cache,
                             !.log = Append(@, [fn |-> "_cached_gh_api", url |-> url,
                                                at |-> ch.now, api |-> out.calls # <<>>,
                                                null |-> out.ret = JNull])]
    /\ UNCHANGED <<lkVars, gh, wf, td, sc>>

\* a call of _peel_to_commit, which requests its URL with _gh_api
ChPeelToCommit ==
    /\ ch.pc = "run" /\ Len(ch.log) < MaxCalls
    /\ \E sha \in ChShas, resp \in ChResponses :
         LET out == _peel_to_commit([peel |-> resp], <<"o", "/", "r">>, sha)
         IN ch' = [ch EXCEPT !.log = Append(@, [fn |-> "_peel_to_commit",
                                                url |-> out.calls[1],
                                                at |-> ch.now, api |-> out.calls # <<>>,
                                                null |-> out.ret = Missing])]
    /\ UNCHANGED <<lkVars, gh, wf, td, sc>>

\* time passes
ChTick ==
    /\ ch.pc = "run" /\ ch.now < MaxClock
    /\ ch' = [ch EXCEPT !.now = @ + 1]
    /\ UNCHANGED <<lkVars, gh, wf, td, sc>>

ChNext == ChCachedCall \/ ChPeelToCommit \/ ChTick

SpecCache == ChInit /\ [][ChNext]_vars

\* C5: the cached helper writes a cache entry only for a non-null response:
\* no entry holds null, and after a call of the helper for a URL that
\* returned null, the helper's next call for the same URL goes to the API.
C5_NullResponsesNotCached ==
    ch.pc = "run" =>
      /\ \A u \in DOMAIN ch.cache : ch.cache[u].json # JNull
      /\ \A i, j \in 1..Len(ch.log) :
           ( /\ i < j
             /\ ch.log[i].fn = "_cached_gh_api" /\ ch.log[j].fn = "_cached_gh_api"
             /\ ch.log[i].url = ch.log[j].url
             /\ \A k \in (i + 1)..(j - 1) :
                  ~(ch.log[k].fn = "_cached_gh_api" /\ ch.log[k].url = ch.log[i].url)
             /\ ch.log[i].null )
           => ch.log[j].api

\* the helper returned null for a URL and is called again for it within the TTL
C5_Witness_RetryAfterNull ==
    /\ ch.pc = "run"
    /\ \E i, j \in 1..Len(ch.log) :
         /\ j = i + 1
         /\ ch.log[i].fn = "_cached_gh_api" /\ ch.log[j].fn = "_cached_gh_api"
         /\ ch.log[i].url = ch.log[j].url
         /\ ch.log[i].null /\ ch.log[j].api
         /\ ch.log[j].at - ch.log[i].at < ch.ttl

\* C6: every GitHub request goes through the cache keyed by URL and honours
\* the TTL: a request for a URL less than TTL after a successful response
\* for that URL was fetched makes no API call, and a request with no such
\* response (TTL elapsed, TTL 0, nothing fetched) goes to the API.
C6_RequestsWithinTtlServedFromCache ==
    ch.pc = "run" =>
      \A j \in 1..Len(ch.log) :
        ch.log[j].api <=>
          ~\E i \in 1..(j - 1) :
              /\ ch.log[i].url = ch.log[j].url
              /\ ch.log[i].api /\ ~ch.log[i].null
              /\ ch.log[j].at - ch.log[i].at < ch.ttl

(***************************************************************************)
(* workflow_versions: scan_workflows and update_comments on one workflow   *)
(* file.  The file is the sequence of its lines, each with its line ending *)
(* (str.splitlines(keepends=True)); a row is one dict of scan_workflows.   *)
(***************************************************************************)
\* _USES_RE.match(line): whether it matches, and the groups indent, action,
\* ref and trail
_USES_RE(line) ==
    LET no_match == [ok |-> FALSE]
        \* [A-Za-z0-9._-] and [0-9a-fA-F]
        name_chars == {"a", "b", "c", "d", "e", "f", "g", "h", "i", "j", "k", "l", "m", "n", "o", "p", "q", "r", "s", "t", "u", "v", "w", "x", "y", "z", "A", "B", "C", "D", "E", "F", "G", "H", "I", "J", "K", "L", "M", "N", "O", "P", "Q", "R", "S", "T", "U", "V", "W", "X", "Y", "Z", "0", "1", "2", "3", "4", "5", "6", "7", "8", "9", ".", "_", "-"}
        hex_chars == {"0", "1", "2", "3", "4", "5", "6", "7", "8", "9", "a", "b", "c", "d", "e", "f", "A", "B", "C", "D", "E", "F"}
        \* a: where the action starts, at: the "@" that ends it
        groups(indent_end, a, at, parts) ==
            IF /\ at # 0
               /\ \A k \in a..(at - 1) : line[k] \in name_chars \cup {"/"}
               /\ Len(parts) >= 2
               /\ \A k \in 1..Len(parts) : parts[k] # <<>>
               /\ at + 40 <= Len(line)
               /\ \A k \in 1..40 : line[at + k] \in hex_chars
               \* `.*` takes no "\n", and `$` is the end or a last "\n"
               /\ \A k \in (at + 41)..(Len(line) - 1) : line[k] # "\n"
            THEN [ok |-> TRUE,
                  indent |-> Slice(line, 1, indent_end),
                  action |-> Slice(line, a, at - 1),
                  ref |-> Slice(line, at + 1, at + 40),
                  trail |-> RStrip(Slice(line, at + 41, Len(line)), {"\n"})]
            ELSE no_match
        action_to(indent_end, a, at) ==
            groups(indent_end, a, at, SplitOn(Slice(line, a, at - 1), "/"))
        \* u: where `uses:` has to start
        uses(indent_end, u) ==
            IF StartsWithAt(line, u, <<"u", "s", "e", "s", ":">>)
            THEN action_to(indent_end, SkipChars(line, u + 5, WS),
                           FindCharFrom(line, SkipChars(line, u + 5, WS), {"@"}))
            ELSE no_match
        \* i: the first character after the leading whitespace
        dash(i) == IF i <= Len(line) /\ line[i] = "-"
                   THEN uses(i - 1, SkipChars(line, i + 1, WS))
                   ELSE uses(i - 1, i)
    IN dash(SkipChars(line, 1, WS))

\* re.search(r"\((v?\d+\.\d+[\.\d]*)\)", t): the indices of "(" and ")" of
\* the leftmost match, 0 and 0 when there is none
ParenTagSearch(t) ==
    LET digits == Digit
        close(e) == IF e <= Len(t) /\ t[e] = ")" THEN e ELSE 0
        \* s: the first digit, d: the first index after the digits from s
        number(s, d) == IF d > s /\ d + 1 <= Len(t) /\ t[d] = "." /\ t[d + 1] \in digits
                        THEN close(SkipChars(t, d + 1, digits \cup {"."}))
                        ELSE 0
        from(s) == number(s, SkipChars(t, s, digits))
        match_at(i) == IF t[i] # "(" THEN 0
                       ELSE IF i + 1 <= Len(t) /\ t[i + 1] = "v" THEN from(i + 2)
                       ELSE from(i + 1)
        leftmost(S) == IF S = {} THEN [s |-> 0, e |-> 0]
                       ELSE [s |-> Min(S), e |-> match_at(Min(S))]
    IN leftmost({i \in 1..Len(t) : match_at(i) # 0})

\* re.search(r"#\s*(v?\S+)", t): the index s of "#", the span g..e of the
\* group; all 0 when there is no match
BareTagSearch(t) ==
    LET span(h, g, stop) == [s |-> h, g |-> g, e |-> IF stop = 0 THEN Len(t) ELSE stop - 1]
        \* g: the first character after "#" that is not whitespace
        group(h, g) == IF h = 0 \/ g > Len(t) THEN [s |-> 0, g |-> 0, e |-> 0]
                       ELSE span(h, g, FindCharFrom(t, g, WS))
        hash(h) == group(h, SkipChars(t, h + 1, WS))
    IN hash(FindCharFrom(t, 1, {"#"}))

\* the classification without its `elif not comment_tag and resolved_tag`
stale_without_missing(comment_tag, resolved_tag, has_desc) ==
    IF comment_tag # Missing /\ resolved_tag # Missing /\ comment_tag # resolved_tag
    THEN "yes"
    ELSE IF ~has_desc /\ (comment_tag # Missing \/ resolved_tag # Missing)
         THEN "no-desc"
    ELSE ""

\* the value of `stale` for one `uses:` line
stale(comment_tag, resolved_tag, has_desc) ==
    IF comment_tag # Missing /\ resolved_tag # Missing /\ comment_tag # resolved_tag
    THEN "yes"
    ELSE IF comment_tag = Missing /\ resolved_tag # Missing THEN "missing"
    ELSE IF ~has_desc /\ (comment_tag # Missing \/ resolved_tag # Missing)
         THEN "no-desc"
    ELSE ""

\* a lookup that never finds the key in the dict
in_cache_never(dict, key) == FALSE

\* `cache_key in seen_shas`, `slug in seen_latest`
in_cache(dict, key) == key \in DOMAIN dict

\* stale / missing / no-desc and upgradable for every `uses:` line of the
\* file, with the dicts seen_shas and seen_latest that save requests;
\* resolutions and lookups are the keys _resolve_tag and _latest_tag were
\* called for, in order
scan_workflows(api, lines, resolve_tags, check_latest) ==
    LET _repo_slug(parts) == parts[1] \o <<"/">> \o parts[2]
        put(dict, key, value) ==
            [k \in DOMAIN dict \cup {key} |-> IF k = key THEN value ELSE dict[k]]
        bare(trail, cm) ==
            [tag |-> IF cm.s # 0 THEN Slice(trail, cm.g, cm.e) ELSE Missing,
             has_desc |-> FALSE]
        paren(trail, pm) ==
            IF pm.s # 0 THEN [tag |-> Slice(trail, pm.s + 1, pm.e - 1), has_desc |-> TRUE]
            ELSE bare(trail, BareTagSearch(trail))
        comment(trail) ==
            IF ~Contains(trail, <<"#">>) THEN [tag |-> Missing, has_desc |-> FALSE]
            ELSE paren(trail, ParenTagSearch(trail))
        upgradable(current, latest_tag) ==
            IF current # Missing /\ latest_tag # Missing /\ current # latest_tag
            THEN "yes" ELSE ""
        row(acc, n, m, c, resolved_tag, latest_tag) ==
            [acc EXCEPT !.rows = Append(@,
                [line |-> n, action |-> m.action, sha |-> m.ref,
                 comment_tag |-> c.tag, resolved_tag |-> resolved_tag,
                 latest_tag |-> latest_tag,
                 stale |-> stale(c.tag, resolved_tag, c.has_desc),
                 upgradable |-> upgradable(IF resolved_tag # Missing THEN resolved_tag
                                           ELSE c.tag, latest_tag),
                 has_description |-> IF c.has_desc THEN "yes" ELSE ""])]
        fetched(acc, n, m, c, resolved_tag, slug, out) ==
            IF out.raised # None
            THEN [acc EXCEPT !.raised = out.raised, !.calls = @ \o out.calls,
                             !.lookups = Append(@, slug)]
            ELSE row([acc EXCEPT !.seen_latest = put(@, slug, out.ret),
                                 !.calls = @ \o out.calls,
                                 !.lookups = Append(@, slug)],
                     n, m, c, resolved_tag, out.ret)
        latest(acc, n, m, c, resolved_tag, slug) ==
            IF ~check_latest THEN row(acc, n, m, c, resolved_tag, Missing)
            ELSE IF in_cache(acc.seen_latest, slug)
                 THEN row(acc, n, m, c, resolved_tag, acc.seen_latest[slug])
            ELSE fetched(acc, n, m, c, resolved_tag, slug, _latest_tag(api, slug))
        resolved(acc, n, m, c, cache_key, out) ==
            IF out.raised # None
            THEN [acc EXCEPT !.raised = out.raised, !.calls = @ \o out.calls,
                             !.resolutions = Append(@, cache_key)]
            ELSE latest([acc EXCEPT !.seen_shas = put(@, cache_key, out.ret),
                                    !.calls = @ \o out.calls,
                                    !.resolutions = Append(@, cache_key)],
                        n, m, c, out.ret, _repo_slug(SplitOn(m.action, "/")))
        resolve(acc, n, m, c, cache_key) ==
            IF ~resolve_tags
            THEN latest(acc, n, m, c, Missing, _repo_slug(SplitOn(m.action, "/")))
            ELSE IF in_cache(acc.seen_shas, cache_key)
                 THEN latest(acc, n, m, c, acc.seen_shas[cache_key],
                             _repo_slug(SplitOn(m.action, "/")))
            ELSE resolved(acc, n, m, c, cache_key,
                          _resolve_tag(api, m.action, m.ref, c.tag))
        step(acc, n, m) ==
            IF acc.raised # None \/ ~m.ok THEN acc
            ELSE resolve(acc, n, m, comment(Strip(m.trail)), m.action \o <<"@">> \o m.ref)
        \* enumerate(text.splitlines(), start=1) of the file as read
        scan(file) ==
            LET f[n \in 0..Len(file)] ==
                    IF n = 0 THEN [raised |-> None, rows |-> <<>>, calls |-> <<>>,
                                   seen_shas |-> EmptyDict, seen_latest |-> EmptyDict,
                                   resolutions |-> <<>>, lookups |-> <<>>]
                    ELSE step(f[n - 1], n, _USES_RE(file[n]))
            IN f[Len(file)]
    IN scan(splitlines(read_text(Concat(lines)), FALSE))

\* str.upper() of one character: the characters it becomes
upper(c) ==
    LET \* ranges holds <<first, last, step, distance>>: the code points first,
        \* first + step, .. last become the code point `distance` further on;
        \* special holds <<code point, the code points it becomes>>
        of(n, ranges, special) ==
            LET points(S, T) ==
                    IF S # {} THEN special[Min(S)][2]
                    ELSE IF T # {} THEN <<n + ranges[Min(T)][4]>>
                    ELSE <<>>
                chars(p) == IF p = <<>> THEN <<c>> ELSE [j \in 1..Len(p) |-> Chr(p[j])]
            IN chars(points({k \in 1..Len(special) : special[k][1] = n},
                            {k \in 1..Len(ranges) :
                               /\ ranges[k][1] <= n /\ n <= ranges[k][2]
                               /\ (n - ranges[k][1]) % ranges[k][3] = 0}))
    IN of(Ord(c),
           <<
             <<97, 122, 1, -32>>, <<181, 181, 1, 743>>, <<224, 246, 1, -32>>, <<248, 254, 1, -32>>,
             <<255, 255, 1, 121>>, <<257, 303, 2, -1>>, <<305, 305, 1, -232>>, <<307, 311, 2, -1>>,
             <<314, 328, 2, -1>>, <<331, 375, 2, -1>>, <<378, 382, 2, -1>>, <<383, 383, 1, -300>>,
             <<384, 384, 1, 195>>, <<387, 389, 2, -1>>, <<392, 392, 1, -1>>, <<396, 396, 1, -1>>,
             <<402, 402, 1, -1>>, <<405, 405, 1, 97>>, <<409, 409, 1, -1>>, <<410, 410, 1, 163>>,
             <<414, 414, 1, 130>>, <<417, 421, 2, -1>>, <<424, 424, 1, -1>>, <<429, 429, 1, -1>>,
             <<432, 432, 1, -1>>, <<436, 438, 2, -1>>, <<441, 441, 1, -1>>, <<445, 445, 1, -1>>,
             <<447, 447, 1, 56>>, <<453, 453, 1, -1>>, <<454, 454, 1, -2>>, <<456, 456, 1, -1>>,
             <<457, 457, 1, -2>>, <<459, 459, 1, -1>>, <<460, 460, 1, -2>>, <<462, 476, 2, -1>>,
             <<477, 477, 1, -79>>, <<479, 495, 2, -1>>, <<498, 498, 1, -1>>, <<499, 499, 1, -2>>,
             <<501, 501, 1, -1>>, <<505, 543, 2, -1>>, <<547, 563, 2, -1>>, <<572, 572, 1, -1>>,
             <<575, 576, 1, 10815>>, <<578, 578, 1, -1>>, <<583, 591, 2, -1>>,
             <<592, 592, 1, 10783>>, <<593, 593, 1, 10780>>, <<594, 594, 1, 10782>>,
             <<595, 595, 1, -210>>, <<596, 596, 1, -206>>, <<598, 599, 1, -205>>,
             <<601, 601, 1, -202>>, <<603, 603, 1, -203>>, <<604, 604, 1, 42319>>,
             <<608, 608, 1, -205>>, <<609, 609, 1, 42315>>, <<611, 611, 1, -207>>,
             <<613, 613, 1, 42280>>, <<614, 614, 1, 42308>>, <<616, 616, 1, -209>>,
             <<617, 617, 1, -211>>, <<618, 618, 1, 42308>>, <<619, 619, 1, 10743>>,
             <<620, 620, 1, 42305>>, <<623, 623, 1, -211>>, <<625, 625, 1, 10749>>,
             <<626, 626, 1, -213>>, <<629, 629, 1, -214>>, <<637, 637, 1, 10727>>,
             <<640, 640, 1, -218>>, <<642, 642, 1, 42307>>, <<643, 643, 1, -218>>,
             <<647, 647, 1, 42282>>, <<648, 648, 1, -218>>, <<649, 649, 1, -69>>,
             <<650, 651, 1, -217>>, <<652, 652, 1, -71>>, <<658, 658, 1, -219>>,
             <<669, 669, 1, 42261>>, <<670, 670, 1, 42258>>, <<837, 837, 1, 84>>,
             <<881, 883, 2, -1>>, <<887, 887, 1, -1>>, <<891, 893, 1, 130>>, <<940, 940, 1, -38>>,
             <<941, 943, 1, -37>>, <<945, 961, 1, -32>>, <<962, 962, 1, -31>>,
             <<963, 971, 1, -32>>, <<972, 972, 1, -64>>, <<973, 974, 1, -63>>,
             <<976, 976, 1, -62>>, <<977, 977, 1, -57>>, <<981, 981, 1, -47>>,
             <<982, 982, 1, -54>>, <<983, 983, 1, -8>>, <<985, 1007, 2, -1>>,
             <<1008, 1008, 1, -86>>, <<1009, 1009, 1, -80>>, <<1010, 1010, 1, 7>>,
             <<1011, 1011, 1, -116>>, <<1013, 1013, 1, -96>>, <<1016, 1016, 1, -1>>,
             <<1019, 1019, 1, -1>>, <<1072, 1103, 1, -32>>, <<1104, 1119, 1, -80>>,
             <<1121, 1153, 2, -1>>, <<1163, 1215, 2, -1>>, <<1218, 1230, 2, -1>>,
             <<1231, 1231, 1, -15>>, <<1233, 1327, 2, -1>>, <<1377, 1414, 1, -48>>,
             <<4304, 4346, 1, 3008>>, <<4349, 4351, 1, 3008>>, <<5112, 5117, 1, -8>>,
             <<7296, 7296, 1, -6254>>, <<7297, 7297, 1, -6253>>, <<7298, 7298, 1, -6244>>,
             <<7299, 7300, 1, -6242>>, <<7301, 7301, 1, -6243>>, <<7302, 7302, 1, -6236>>,
             <<7303, 7303, 1, -6181>>, <<7304, 7304, 1, 35266>>, <<7545, 7545, 1, 35332>>,
             <<7549, 7549, 1, 3814>>, <<7566, 7566, 1, 35384>>, <<7681, 7829, 2, -1>>,
             <<7835, 7835, 1, -59>>, <<7841, 7935, 2, -1>>, <<7936, 7943, 1, 8>>,
             <<7952, 7957, 1, 8>>, <<7968, 7975, 1, 8>>, <<7984, 7991, 1, 8>>,
             <<8000, 8005, 1, 8>>, <<8017, 8023, 2, 8>>, <<8032, 8039, 1, 8>>,
             <<8048, 8049, 1, 74>>, <<8050, 8053, 1, 86>>, <<8054, 8055, 1, 100>>,
             <<8056, 8057, 1, 128>>, <<8058, 8059, 1, 112>>, <<8060, 8061, 1, 126>>,
             <<8112, 8113, 1, 8>>, <<8126, 8126, 1, -7205>>, <<8144, 8145, 1, 8>>,
             <<8160, 8161, 1, 8>>, <<8165, 8165, 1, 7>>, <<8526, 8526, 1, -28>>,
             <<8560, 8575, 1, -16>>, <<8580, 8580, 1, -1>>, <<9424, 9449, 1, -26>>,
             <<11312, 11359, 1, -48>>, <<11361, 11361, 1, -1>>, <<11365, 11365, 1, -10795>>,
             <<11366, 11366, 1, -10792>>, <<11368, 11372, 2, -1>>, <<11379, 11379, 1, -1>>,
             <<11382, 11382, 1, -1>>, <<11393, 11491, 2, -1>>, <<11500, 11502, 2, -1>>,
             <<11507, 11507, 1, -1>>, <<11520, 11557, 1, -7264>>, <<11559, 11559, 1, -7264>>,
             <<11565, 11565, 1, -7264>>, <<42561, 42605, 2, -1>>, <<42625, 42651, 2, -1>>,
             <<42787, 42799, 2, -1>>, <<42803, 42863, 2, -1>>, <<42874, 42876, 2, -1>>,
             <<42879, 42887, 2, -1>>, <<42892, 42892, 1, -1>>, <<42897, 42899, 2, -1>>,
             <<42900, 42900, 1, 48>>, <<42903, 42921, 2, -1>>, <<42933, 42947, 2, -1>>,
             <<42952, 42954, 2, -1>>, <<42961, 42961, 1, -1>>, <<42967, 42969, 2, -1>>,
             <<42998, 42998, 1, -1>>, <<43859, 43859, 1, -928>>, <<43888, 43967, 1, -38864>>,
             <<65345, 65370, 1, -32>>, <<66600, 66639, 1, -40>>, <<66776, 66811, 1, -40>>,
             <<66967, 66977, 1, -39>>, <<66979, 66993, 1, -39>>, <<66995, 67001, 1, -39>>,
             <<67003, 67004, 1, -39>>, <<68800, 68850, 1, -64>>, <<71872, 71903, 1, -32>>,
             <<93792, 93823, 1, -32>>, <<125218, 125251, 1, -34>> >>,
           <<
             <<223, <<83, 83>>>>, <<329, <<700, 78>>>>, <<496, <<74, 780>>>>,
             <<912, <<921, 776, 769>>>>, <<944, <<933, 776, 769>>>>, <<1415, <<1333, 1362>>>>,
             <<7830, <<72, 817>>>>, <<7831, <<84, 776>>>>, <<7832, <<87, 778>>>>,
             <<7833, <<89, 778>>>>, <<7834, <<65, 702>>>>, <<8016, <<933, 787>>>>,
             <<8018, <<933, 787, 768>>>>, <<8020, <<933, 787, 769>>>>, <<8022, <<933, 787, 834>>>>,
             <<8064, <<7944, 921>>>>, <<8065, <<7945, 921>>>>, <<8066, <<7946, 921>>>>,
             <<8067, <<7947, 921>>>>, <<8068, <<7948, 921>>>>, <<8069, <<7949, 921>>>>,
             <<8070, <<7950, 921>>>>, <<8071, <<7951, 921>>>>, <<8072, <<7944, 921>>>>,
             <<8073, <<7945, 921>>>>, <<8074, <<7946, 921>>>>, <<8075, <<7947, 921>>>>,
             <<8076, <<7948, 921>>>>, <<8077, <<7949, 921>>>>, <<8078, <<7950, 921>>>>,
             <<8079, <<7951, 921>>>>, <<8080, <<7976, 921>>>>, <<8081, <<7977, 921>>>>,
             <<8082, <<7978, 921>>>>, <<8083, <<7979, 921>>>>, <<8084, <<7980, 921>>>>,
             <<8085, <<7981, 921>>>>, <<8086, <<7982, 921>>>>, <<8087, <<7983, 921>>>>,
             <<8088, <<7976, 921>>>>, <<8089, <<7977, 921>>>>, <<8090, <<7978, 921>>>>,
             <<8091, <<7979, 921>>>>, <<8092, <<7980, 921>>>>, <<8093, <<7981, 921>>>>,
             <<8094, <<7982, 921>>>>, <<8095, <<7983, 921>>>>, <<8096, <<8040, 921>>>>,
             <<8097, <<8041, 921>>>>, <<8098, <<8042, 921>>>>, <<8099, <<8043, 921>>>>,
             <<8100, <<8044, 921>>>>, <<8101, <<8045, 921>>>>, <<8102, <<8046, 921>>>>,
             <<8103, <<8047, 921>>>>, <<8104, <<8040, 921>>>>, <<8105, <<8041, 921>>>>,
             <<8106, <<8042, 921>>>>, <<8107, <<8043, 921>>>>, <<8108, <<8044, 921>>>>,
             <<8109, <<8045, 921>>>>, <<8110, <<8046, 921>>>>, <<8111, <<8047, 921>>>>,
             <<8114, <<8122, 921>>>>, <<8115, <<913, 921>>>>, <<8116, <<902, 921>>>>,
             <<8118, <<913, 834>>>>, <<8119, <<913, 834, 921>>>>, <<8124, <<913, 921>>>>,
             <<8130, <<8138, 921>>>>, <<8131, <<919, 921>>>>, <<8132, <<905, 921>>>>,
             <<8134, <<919, 834>>>>, <<8135, <<919, 834, 921>>>>, <<8140, <<919, 921>>>>,
             <<8146, <<921, 776, 768>>>>, <<8147, <<921, 776, 769>>>>, <<8150, <<921, 834>>>>,
             <<8151, <<921, 776, 834>>>>, <<8162, <<933, 776, 768>>>>, <<8163, <<933, 776, 769>>>>,
             <<8164, <<929, 787>>>>, <<8166, <<933, 834>>>>, <<8167, <<933, 776, 834>>>>,
             <<8178, <<8186, 921>>>>, <<8179, <<937, 921>>>>, <<8180, <<911, 921>>>>,
             <<8182, <<937, 834>>>>, <<8183, <<937, 834, 921>>>>, <<8188, <<937, 921>>>>,
             <<64256, <<70, 70>>>>, <<64257, <<70, 73>>>>, <<64258, <<70, 76>>>>,
             <<64259, <<70, 70, 73>>>>, <<64260, <<70, 70, 76>>>>, <<64261, <<83, 84>>>>,
             <<64262, <<83, 84>>>>, <<64275, <<1348, 1350>>>>, <<64276, <<1348, 1333>>>>,
             <<64277, <<1348, 1339>>>>, <<64278, <<1358, 1350>>>>, <<64279, <<1348, 1341>>>> >>)

_shorten_description(desc) ==
    LET \* re.IGNORECASE: the characters that match the character p of the pattern
        ignorecase(p) ==
            LET letters == <<"abcdefghijklmnopqrstuvwxyz", "ABCDEFGHIJKLMNOPQRSTUVWXYZ">>
                letter(a, k) == SubSeq(letters[a], k, k)
            IN CASE p \in {"i", "I"} -> {"i", "I", "\\u0130", "\\u0131"}
                 [] p \in {"s", "S"} -> {"s", "S", "\\u017f"}
                 [] p \in {"k", "K"} -> {"k", "K", "\\u212a"}
                 [] OTHER ->
                      {p} \cup {letter(a, k) : a \in 1..2,
                                k \in {j \in 1..26 : p \in {letter(1, j), letter(2, j)}}}
        \* the index after the text lit at index i; 0 when it is not there
        literal(i, lit) ==
            IF /\ i # 0 /\ i + Len(lit) - 1 <= Len(desc)
               /\ \A k \in 1..Len(lit) : desc[i + k - 1] \in ignorecase(SubSeq(lit, k, k))
            THEN i + Len(lit) ELSE 0
        \* (that |for |to )
        that_for_to(i) ==
            LET first(a, b, c) == IF a # 0 THEN a ELSE IF b # 0 THEN b ELSE c
            IN first(literal(i, "that "), literal(i, "for "), literal(i, "to "))
        \* \s+ and \s*
        blanks(i) == IF i # 0 /\ SkipChars(desc, i, WS) > i THEN SkipChars(desc, i, WS) ELSE 0
        any_blanks(i) == IF i = 0 THEN 0 ELSE SkipChars(desc, i, WS)
        \* [,]?
        comma(i) == IF i # 0 /\ i <= Len(desc) /\ desc[i] = "," THEN i + 1 ELSE i
        optional(i, j) == IF j # 0 THEN j ELSE i
        github_action(i) == optional(i, that_for_to(i))
        \* the alternatives in order; 0 when the pattern does not match
        boilerplate(a, b, c) == IF a # 0 THEN a ELSE IF b # 0 THEN b ELSE c
        without(e) == IF e = 0 THEN desc ELSE Slice(desc, e, Len(desc))
        \* ^([^.!;]+), then strip()
        sentence(d, stop) ==
            IF d = <<>> \/ d[1] \in {".", "!", ";"} THEN d
            ELSE Strip(Slice(d, 1, IF stop = 0 THEN Len(d) ELSE stop - 1))
        capitalised(d) == IF d = <<>> THEN d ELSE upper(d[1]) \o Tail(d)
        \* s: the index of the last " " among the first 47 characters
        cut(d, s) == (IF s - 1 > 30 THEN Slice(d, 1, s - 1) ELSE Slice(d, 1, 47))
                     \o <<"\\u2026">>
        truncated(d) ==
            IF Len(d) <= 50 THEN d
            ELSE cut(d, Max({0} \cup {k \in 1..47 : d[k] = " "}))
        first_sentence(d) == sentence(d, FindCharFrom(d, 1, {".", "!", ";"}))
        tidy(d) == RStrip(first_sentence(d), {".", ",", ";", ":", "!"})
    IN truncated(capitalised(tidy(without(
           boilerplate(blanks(literal(1, "This action")),
                       that_for_to(literal(1, "A GitHub Action ")),
                       github_action(any_blanks(comma(literal(1, "GitHub Action")))))))))

\* the description of action.yml (then action.yaml) of the action, read
\* through the contents API; the field `content` of the answer is given by
\* what base64.b64decode(...).decode("utf-8") makes of it: a text, an
\* exception of the except clause ("undecodable"), a TypeError ("not_text");
\* none: the function returns None
_action_description(api, action) ==
    LET parts == SplitOn(action, "/")
        nothing(calls) == [raised |-> None, ret |-> Missing, none |-> TRUE, calls |-> calls]
        sub_path == IF Len(parts) > 2 THEN JoinWith(SubSeq(parts, 3, Len(parts)), "/") ELSE <<>>
        path(filename) ==
            IF sub_path # <<>> THEN sub_path \o <<"/">> \o Chars(filename) ELSE Chars(filename)
        unquoted(value) ==
            IF Len(value) >= 2 /\ value[1] \in {"'", "\""} /\ value[Len(value)] = value[1]
            THEN Slice(value, 2, Len(value) - 1)
            ELSE value
        \* the loop over raw.splitlines(): the value found, or the loop left
        \* by its end or by break
        described(raw) ==
            LET value(v) ==
                    IF v \in {<<">">>, <<"|">>, <<">", "-">>, <<"|", "-">>, <<>>}
                    THEN [found |-> FALSE, text |-> <<>>]
                    ELSE [found |-> TRUE, text |-> unquoted(v)]
                f[k \in 1..(Len(raw) + 1)] ==
                    IF k > Len(raw) THEN [found |-> FALSE, text |-> <<>>]
                    ELSE IF ~StartsWith(raw[k], Chars("description")) THEN f[k + 1]
                    \* ^description:\s*(.+)$
                    ELSE IF ~(Len(raw[k]) >= 13 /\ raw[k][12] = ":") THEN f[k + 1]
                    ELSE value(Strip(Slice(raw[k], 13, Len(raw[k]))))
            IN f[1]
        filenames == <<"action.yml", "action.yaml">>
        f[n \in 1..3] ==
            LET after(calls, rest) == [rest EXCEPT !.calls = calls \o @]
                returned(calls, d) ==
                    IF d.found
                    THEN [raised |-> None, ret |-> d.text, none |-> FALSE, calls |-> calls]
                    ELSE after(calls, f[n + 1])
                decoded(calls, content) ==
                    IF content.kind = "not_text"
                    THEN [raised |-> "TypeError", ret |-> Missing, none |-> TRUE, calls |-> calls]
                    ELSE IF content.kind = "undecodable" THEN after(calls, f[n + 1])
                    ELSE returned(calls, described(splitlines(content.text, FALSE)))
                got(data) ==
                    IF data.raised # None
                    THEN [raised |-> data.raised, ret |-> Missing, none |-> TRUE,
                          calls |-> data.calls]
                    ELSE IF data.ret.t # "dict" \/ "content" \notin DOMAIN data.ret.v
                         THEN after(data.calls, f[n + 1])
                    ELSE decoded(data.calls, data.ret.v.content)
            IN IF n > 2 THEN nothing(<<>>)
               ELSE got(_gh_api(api, <<parts[1] \o <<"/">> \o parts[2], "/contents/",
                                       path(filenames[n])>>))
        \* return _shorten_description(value)
        shortened(out) ==
            IF out.none THEN out ELSE [out EXCEPT !.ret = _shorten_description(@)]
    IN IF Len(parts) < 2 THEN nothing(<<>>) ELSE shortened(f[1])

\* the lines of the file afterwards and the number of lines modified, or the
\* exception that leaves the function: of a request for a description, or of
\* read_text when the file is gone (exists = FALSE); calls are the requests
update_comments(api, rows, exists, lines) ==
    LET tag(r) == IF r.resolved_tag # Missing THEN r.resolved_tag ELSE r.comment_tag
        selected(r) == tag(r) # Missing /\ r.stale \in {"yes", "missing", "no-desc"}
        actions_needing_desc ==
            {rows[j].action : j \in {i \in 1..Len(rows) :
                                       /\ rows[i].has_description # "yes"
                                       /\ rows[i].stale \in {"yes", "missing", "no-desc"}}}
            \ {Missing}
        \* a < b for str: by code points
        less(a, b) ==
            LET differ == {k \in 1..Min({Len(a), Len(b)}) : a[k] # b[k]}
            IN IF differ = {} THEN Len(a) < Len(b)
               ELSE Ord(a[Min(differ)]) < Ord(b[Min(differ)])
        sorted(S) ==
            LET least(T) == CHOOSE a \in T : \A b \in T : a = b \/ less(a, b)
                next(acc) == Append(acc, least(S \ {acc[k] : k \in DOMAIN acc}))
                g[n \in 0..Cardinality(S)] == IF n = 0 THEN <<>> ELSE next(g[n - 1])
            IN g[Cardinality(S)]
        \* desc_cache, filled action by action
        fetch(order) ==
            LET took(acc, action, d) ==
                    IF acc.raised # None THEN acc
                    ELSE [raised |-> d.raised, calls |-> acc.calls \o d.calls,
                          cache |-> [a \in DOMAIN acc.cache \cup {action} |->
                                       IF a = action THEN d.ret ELSE acc.cache[a]]]
                h[n \in 0..Len(order)] ==
                    IF n = 0 THEN [raised |-> None, calls |-> <<>>, cache |-> EmptyDict]
                    ELSE took(h[n - 1], order[n], _action_description(api, order[n]))
            IN h[Len(order)]
        \* re.sub(pattern, repl, trail, count=1) for a match s..e, 0 for none;
        \* x is the replacement for that match
        sub(trail, s, e, x) ==
            IF x.raised # None THEN [raised |-> x.raised, text |-> trail]
            ELSE IF s = 0 THEN [raised |-> None, text |-> trail]
            ELSE [raised |-> None,
                  text |-> Slice(trail, 1, s - 1) \o x.text \o Slice(trail, e + 1, Len(trail))]
        replaced(trail, s, e, repl) ==
            sub(trail, s, e, expand_template(parse_template(repl),
                                             IF s = 0 THEN <<>> ELSE Slice(trail, s, e)))
        in_parens(trail, pm, new_tag) ==
            replaced(trail, pm.s, pm.e, <<"(">> \o new_tag \o <<")">>)
        whole_comment(trail, cm, desc, new_tag) ==
            replaced(trail, cm.s, Len(trail),
                     <<"#", " ">> \o desc \o <<" ", "(">> \o new_tag \o <<")">>)
        bare_tag(trail, cm, new_tag) ==
            replaced(trail, cm.s, cm.e, <<"#", " ">> \o new_tag)
        new_trail(trail, new_tag, has_desc, desc) ==
            IF Contains(trail, <<"#">>)
            THEN IF has_desc THEN in_parens(trail, ParenTagSearch(trail), new_tag)
                 ELSE IF desc # Missing
                      THEN whole_comment(trail, BareTagSearch(trail), desc, new_tag)
                 ELSE bare_tag(trail, BareTagSearch(trail), new_tag)
            ELSE [raised |-> None,
                  text |-> IF desc # Missing
                           THEN <<" ", "#", " ">> \o desc \o <<" ", "(">> \o new_tag \o <<")">>
                           ELSE <<" ", "#", " ">> \o new_tag]
        \* line.lstrip().startswith("-")
        dashed(line, i) == i <= Len(line) /\ line[i] = "-"
        new_line(line, m, t) ==
            [raised |-> t.raised,
             text |-> m.indent
                      \o (IF dashed(line, SkipChars(line, 1, WS)) THEN <<"-", " ">> ELSE <<>>)
                      \o <<"u", "s", "e", "s", ":", " ">> \o m.action \o <<"@">> \o m.ref
                      \o t.text \o <<"\n">>]
        \* desc = desc_cache.get(action) if not has_desc else None
        matched(desc_cache, old, line, m, r) ==
            IF ~m.ok THEN [raised |-> None, text |-> old]
            ELSE new_line(line, m,
                          new_trail(m.trail, tag(r), r.has_description = "yes",
                                    IF r.has_description = "yes" THEN Missing
                                    ELSE DictGet(desc_cache, r.action, Missing)))
        rewrite(desc_cache, old, line, r) == matched(desc_cache, old, line, _USES_RE(line), r)
        \* text.splitlines(keepends=True) of the file as read, then the loop
        \* over updates: a line number is visited where its first selected row
        \* stands, with the values of its last one
        loop(desc_cache, file) ==
            LET last(k) == Max({j \in 1..Len(rows) : rows[j].line = k /\ selected(rows[j])})
                visit(j) == /\ selected(rows[j])
                            /\ rows[j].line \in 1..Len(file)
                            /\ \A i \in 1..(j - 1) :
                                 ~(selected(rows[i]) /\ rows[i].line = rows[j].line)
                put(acc, k, new) ==
                    IF new.raised # None THEN [acc EXCEPT !.raised = new.raised]
                    ELSE IF new.text = acc.lines[k] THEN acc
                    ELSE [acc EXCEPT !.lines[k] = new.text, !.modified = @ + 1]
                step(acc, j) ==
                    IF acc.raised # None \/ ~visit(j) THEN acc
                    ELSE put(acc, rows[j].line,
                             rewrite(desc_cache, file[rows[j].line],
                                     RStrip(file[rows[j].line], {"\n"}),
                                     rows[last(rows[j].line)]))
                f[j \in 0..Len(rows)] ==
                    IF j = 0 THEN [raised |-> None, lines |-> file, modified |-> 0]
                    ELSE step(f[j - 1], j)
            IN f[Len(rows)]
        \* the file is written when a line was modified
        written(calls, out) ==
            IF out.raised # None
            THEN [raised |-> out.raised, lines |-> lines, modified |-> 0, calls |-> calls]
            ELSE IF out.modified = 0
                 THEN [raised |-> None, lines |-> lines, modified |-> 0, calls |-> calls]
            ELSE [raised |-> None, lines |-> out.lines, modified |-> out.modified,
                  calls |-> calls]
        fetched(descs) ==
            IF descs.raised # None
            THEN [raised |-> descs.raised, lines |-> lines, modified |-> 0,
                  calls |-> descs.calls]
            ELSE IF ~exists
                 THEN [raised |-> "FileNotFoundError", lines |-> lines, modified |-> 0,
                       calls |-> descs.calls]
            ELSE written(descs.calls,
                         loop(descs.cache, splitlines(read_text(Concat(lines)), TRUE)))
    IN IF \A j \in 1..Len(rows) : ~selected(rows[j])
       THEN [raised |-> None, lines |-> lines, modified |-> 0, calls |-> <<>>]
       ELSE fetched(fetch(sorted(actions_needing_desc)))

\* _resolve_sha_for_tag: the commit the ref of tag_name names, peeled when
\* the ref is an annotated tag
_resolve_sha_for_tag(api, repo_slug, tag_name) ==
    LET peeled(calls, commit) ==
            [raised |-> commit.raised, ret |-> commit.ret, calls |-> calls \o commit.calls]
        loop(refs, calls) ==
            LET f[k \in 1..(Len(refs) + 1)] ==
                    LET visit(ref_name, obj) ==
                            IF ref_name # tag_name THEN f[k + 1]
                            ELSE IF DictGet(obj, "type", "") = "commit"
                                 THEN [raised |-> None, ret |-> DictGet(obj, "sha", Missing),
                                       calls |-> calls]
                            ELSE IF DictGet(obj, "type", "") = "tag"
                                 THEN peeled(calls, _peel_to_commit(api, repo_slug,
                                                                    DictGet(obj, "sha", Missing)))
                            ELSE f[k + 1]
                    IN IF k > Len(refs)
                       THEN [raised |-> None, ret |-> Missing, calls |-> calls]
                       ELSE visit(RemovePrefix(DictGet(refs[k], "ref", <<>>),
                                               <<"r", "e", "f", "s", "/", "t", "a", "g", "s", "/">>),
                                  DictGet(refs[k], "object", EmptyDict))
            IN f[1]
        got(data) ==
            IF data.raised # None \/ data.ret.t # "list"
            THEN [raised |-> data.raised, ret |-> Missing, calls |-> data.calls]
            ELSE loop(data.ret.v, data.calls)
    IN got(_gh_api(api, <<repo_slug, "/git/matching-refs/tags/", tag_name>>))

\* re.sub(r"\(v?\d+\.\d+[\.\d]*\)", repl, t) for the compiled replacement:
\* every match is replaced
ParenSubAll(t, template) ==
    LET f[i \in 1..(Len(t) + 1)] ==
            LET next(pm) ==
                    IF pm.s = 0 THEN Slice(t, i, Len(t))
                    ELSE Slice(t, i, i + pm.s - 2)
                         \o expand_template(template, Slice(t, i + pm.s - 1, i + pm.e - 1)).text
                         \o f[i + pm.e]
            IN next(ParenTagSearch(Slice(t, i, Len(t))))
    IN f[1]

\* re.search(r"#\s*v?\d+\.\d+\S*", t): the span s..e of the leftmost match,
\* 0 and 0 when there is none
BareVersionSearch(t) ==
    LET digits == Digit
        \* d: the first index after the digits that start at s
        rest(s, d) == IF d > s /\ d + 1 <= Len(t) /\ t[d] = "." /\ t[d + 1] \in digits
                      THEN FindCharFrom(t, d + 1, WS)
                      ELSE -1
        number(g) == IF g <= Len(t) /\ t[g] = "v"
                     THEN rest(g + 1, SkipChars(t, g + 1, digits))
                     ELSE rest(g, SkipChars(t, g, digits))
        \* the end of the match that starts at the "#" at h, 0 when none does
        match_end(h) ==
            LET stop(e) == IF e = -1 THEN 0 ELSE IF e = 0 THEN Len(t) ELSE e - 1
            IN stop(number(SkipChars(t, h + 1, WS)))
        leftmost(S) == IF S = {} THEN [s |-> 0, e |-> 0]
                       ELSE [s |-> Min(S), e |-> match_end(Min(S))]
    IN leftmost({h \in 1..Len(t) : t[h] = "#" /\ match_end(h) # 0})

\* the lines of the file afterwards and the number of lines modified, or the
\* exception that leaves the function
upgrade_action(api, action, target_tag, rows, exists, lines) ==
    LET _repo_slug(parts) == parts[1] \o <<"/">> \o parts[2]
        same_slug(r) == _repo_slug(SplitOn(r.action, "/")) = _repo_slug(SplitOn(action, "/"))
        \* re.sub(pattern, repl, trail, count=1) for a match s..e, 0 for none;
        \* x is the replacement for that match
        sub(trail, s, e, x) ==
            IF x.raised # None THEN [raised |-> x.raised, text |-> trail]
            ELSE IF s = 0 THEN [raised |-> None, text |-> trail]
            ELSE [raised |-> None,
                  text |-> Slice(trail, 1, s - 1) \o x.text \o Slice(trail, e + 1, Len(trail))]
        \* t: the two replacements as re.sub compiles them, f"({target_tag})"
        \* and f"# {target_tag}"
        bare(trail, in_parens, cm, t) ==
            IF in_parens # trail THEN [raised |-> None, text |-> in_parens]
            ELSE sub(trail, cm.s, cm.e,
                     expand_template(t.bare, IF cm.s = 0 THEN <<>> ELSE Slice(trail, cm.s, cm.e)))
        parens(trail, t) ==
            IF t.parens.raised # None THEN [raised |-> t.parens.raised, text |-> trail]
            ELSE bare(trail, ParenSubAll(trail, t.parens), BareVersionSearch(trail), t)
        new_trail(trail, t) ==
            IF Contains(trail, <<"#">>) THEN parens(trail, t)
            ELSE [raised |-> None, text |-> <<" ", "#", " ">> \o target_tag]
        dashed(line, i) == i <= Len(line) /\ line[i] = "-"
        new_line(line, m, new_sha, t) ==
            [raised |-> t.raised,
             text |-> m.indent
                      \o (IF dashed(line, SkipChars(line, 1, WS)) THEN <<"-", " ">> ELSE <<>>)
                      \o <<"u", "s", "e", "s", ":", " ">> \o m.action \o <<"@">> \o new_sha
                      \o t.text \o <<"\n">>]
        put(acc, k, new) ==
            IF new.raised # None THEN [acc EXCEPT !.raised = new.raised]
            ELSE IF new.text = acc.lines[k] THEN acc
            ELSE [acc EXCEPT !.lines[k] = new.text, !.modified = @ + 1]
        matched(acc, k, line, m, new_sha, t) ==
            IF ~m.ok THEN acc
            ELSE put(acc, k, new_line(line, m, new_sha, new_trail(m.trail, t)))
        rewrite(acc, k, new_sha, t) ==
            IF acc.raised # None \/ k < 1 \/ k > Len(acc.lines) THEN acc
            ELSE matched(acc, k, RStrip(acc.lines[k], {"\n"}),
                         _USES_RE(RStrip(acc.lines[k], {"\n"})), new_sha, t)
        \* text.splitlines(keepends=True) of the file as read, then the rows in
        \* order; the file is written when a line was modified
        loop(file_rows, new_sha, file, t) ==
            LET f[n \in 0..Len(file_rows)] ==
                    IF n = 0 THEN [raised |-> None, lines |-> file, modified |-> 0]
                    ELSE rewrite(f[n - 1], file_rows[n].line, new_sha, t)
            IN f[Len(file_rows)]
        written(out) ==
            IF out.raised # None THEN [raised |-> out.raised, lines |-> lines, modified |-> 0]
            ELSE IF out.modified = 0 THEN [raised |-> None, lines |-> lines, modified |-> 0]
            ELSE out
        by_file(file_rows, new_sha, t) ==
            IF file_rows = <<>> THEN [raised |-> None, lines |-> lines, modified |-> 0]
            ELSE IF ~exists
                 THEN [raised |-> "FileNotFoundError", lines |-> lines, modified |-> 0]
            ELSE written(loop(file_rows, new_sha, splitlines(read_text(Concat(lines)), TRUE), t))
        resolved(new_sha, t) ==
            IF new_sha.raised # None
            THEN [raised |-> new_sha.raised, lines |-> lines, modified |-> 0]
            ELSE IF new_sha.ret = Missing
                 THEN [raised |-> None, lines |-> lines, modified |-> 0]
            ELSE by_file(SelectSeq(rows, same_slug), new_sha.ret, t)
    IN resolved(_resolve_sha_for_tag(api, _repo_slug(SplitOn(action, "/")), target_tag),
                [parens |-> parse_template(<<"(">> \o target_tag \o <<")">>),
                 bare |-> parse_template(<<"#", " ">> \o target_tag)])

\* the first loop of upgrade_all_actions: the first upgradable row of every
\* repository that has a latest tag; each is upgraded to that tag
_upgrades(rows) ==
    LET _repo_slug(parts) == parts[1] \o <<"/">> \o parts[2]
        slug(r) == _repo_slug(SplitOn(r.action, "/"))
        wanted(r) == r.upgradable = "yes" /\ r.latest_tag # Missing
        first(j) == wanted(rows[j])
                    /\ \A i \in 1..(j - 1) : ~(wanted(rows[i]) /\ slug(rows[i]) = slug(rows[j]))
        h[j \in 0..Len(rows)] ==
            IF j = 0 THEN <<>>
            ELSE IF first(j) THEN Append(h[j - 1], rows[j]) ELSE h[j - 1]
    IN h[Len(rows)]

\* upgrade_action for each upgrade in turn, when nothing else touches the
\* file meanwhile
upgrade_all_actions(api, rows, exists, lines) ==
    LET counted(acc, out) ==
            [raised |-> out.raised, lines |-> out.lines, modified |-> acc.modified + out.modified]
        step(acc, r) ==
            IF acc.raised # None THEN acc
            ELSE counted(acc, upgrade_action(api, r.action, r.latest_tag, rows, exists,
                                             acc.lines))
        loop(upgrades) ==
            LET g[n \in 0..Len(upgrades)] ==
                    IF n = 0 THEN [raised |-> None, lines |-> lines, modified |-> 0]
                    ELSE step(g[n - 1], upgrades[n])
            IN g[Len(upgrades)]
    IN loop(_upgrades(rows))

MaxRuns == 2

\* one workflow file: `uses:` lines with different spacing, actions with and
\* without a sub-path, no comment, a bare tag, a tag after a no-break space,
\* a description with a tag in parentheses, a comment without a tag, a tag
\* with a letter outside ASCII; with and without a final newline, and a file
\* with "\r\n" line endings
WfFiles ==
    LET sha == [k \in 1..40 |-> "a"]
        prefixes == { <<"-", " ", "u", "s", "e", "s", ":", " ">>, <<"-", " ", " ", "u", "s", "e", "s", ":", " ">>, <<" ", " ", " ", " ", "u", "s", "e", "s", ":", " ">>, <<" ", " ", "-", " ", "u", "s", "e", "s", ":">> }
        actions == { <<"o", "/", "r">>, <<"o", "/", "r", "/", "i", "n", "i", "t">> }
        trails == { <<>>, <<" ", "#", " ", "v", "4">>, <<" ", "#", " ", "v", "3">>, <<" ", "#">>, <<" ", "#", " ", "C", "h", "e", "c", "k", "o", "u", "t", " ", "(", "v", "4", ")">>,
                    <<" ", "#", " ", "C", "h", "e", "c", "k", "o", "u", "t", " ", "(", "v", "3", ".", "1", ")">>, <<" ", "#", " ", "C", "h", "e", "c", "k", "o", "u", "t", " ", "c", "o", "d", "e">>, <<" ", " ", "#", "v", "4", ".", "0", ".", "0">>,
                    <<" ", "#", " ", "v", "4", ".", "0">>, <<" ", "#", Latin1[161], "v", "4">>,
                    <<" ", "#", " ", "v", Latin1[234]>> }
        uses(prefix, action, trail) == prefix \o action \o <<"@">> \o sha \o trail
        first == { <<"n", "a", "m", "e", ":", " ", "C", "I", "\n">>, <<"n", "a", "m", "e", ":", " ", "C", "I", "\r", "\n">>,
                   uses(<<"-", " ", "u", "s", "e", "s", ":", " ">>, <<"o", "/", "r">>, <<" ", "#", " ", "v", "3">>) \o <<"\n">>,
                   uses(<<"-", " ", "u", "s", "e", "s", ":", " ">>, <<"o", "/", "r">>, <<>>) \o <<"\n">> }
        second == { uses(<<"-", " ", "u", "s", "e", "s", ":", " ">>, <<"o", "/", "r">>, <<" ", "#", " ", "v", "4">>) \o <<"\n">>,
                    uses(<<"-", " ", "u", "s", "e", "s", ":", " ">>, <<"o", "/", "r", "/", "i", "n", "i", "t">>, <<>>) \o <<"\n">>,
                    <<" ", " ", "r", "u", "n", ":", " ", "x", "@", "y", " ", "#", " ", "v", "1", "\n">> }
    IN { <<uses(prefix, action, trail) \o end>> :
           prefix \in prefixes, action \in actions, trail \in trails,
           end \in {<<"\n">>, <<>>} }
       \cup { <<l1, l2>> : l1 \in first, l2 \in second }

\* GitHub as the scan finds it: the tag v4 on the pinned commit or nothing,
\* a latest release, and the action's metadata: no file, a quoted description
\* in action.yml, a description with a backslash in action.yaml, a long
\* description that begins with boilerplate, a file that is not UTF-8
WfApis ==
    LET not_found == GhResponse("HTTPError", 404, TRUE, TRUE, JNull)
        v4 == <<"v", "4">>
        ref == [ref |-> <<"r", "e", "f", "s", "/", "t", "a", "g", "s", "/", "v", "4">>, object |-> [sha |-> ShaPinned, type |-> "commit"]]
        tag(name, sha) == [name |-> name, commit |-> [sha |-> sha]]
        page1 == GhOk(JSON("list", <<tag(<<"v", "3", ".", "9">>, ShaOther), tag(v4, ShaPinned)>>))
        release(name) == GhOk(JSON("dict", [tag_name |-> name]))
        content(text) ==
            GhOk(JSON("dict", [content |-> [kind |-> "text", text |-> Chars(text)]]))
        metadata ==
            { <<not_found, not_found>>,
              <<content("name: Checkout\ndescription: 'Check out'\n"), not_found>>,
              <<not_found, content("description: C\\d")>>,
              <<content("description: This action checks out your repository under $GITHUB_WORKSPACE, so your workflow can access it.\n"), not_found>>,
              <<GhResponse("body", 200, FALSE, FALSE, JNull), not_found>> }
        answers ==
            [ refs : { not_found, GhOk(JSON("list", <<ref>>)),
                       GhResponse("body", 200, FALSE, FALSE, JNull) },
              peel : { not_found },
              pages : { [p \in 1..TagPages |-> not_found],
                        [p \in 1..TagPages |-> IF p = 1 THEN page1 ELSE not_found] },
              release : { not_found, release(<<"v", "4", ".", "0", ".", "0">>), release(<<"v", "5", ".", "0", ".", "1">>) },
              tags30 : { not_found } ]
    IN { [refs |-> a.refs, peel |-> a.peel, pages |-> a.pages, release |-> a.release,
          tags30 |-> a.tags30, action_yml |-> m[1], action_yaml |-> m[2]] :
         a \in answers, m \in metadata }

WfInit ==
    /\ LkOff /\ gh = Off /\ ch = Off /\ td = Off /\ sc = Off
    /\ \E file \in WfFiles, api \in WfApis :
         wf = [pc |-> "scan", run |-> 1, api |-> api, exists |-> TRUE, lines |-> file,
               before |-> file, rows |-> <<>>, raised |-> None, modified |-> 0,
               calls |-> <<>>, edited |-> FALSE, op |-> "", action |-> Missing,
               target |-> Missing, synced |-> <<>>,
               resolutions |-> <<>>, lookups |-> <<>>, command |-> "", upgrades |-> <<>>]

\* main scans for the command at hand: `show` and `upgrade` resolve the
\* tags and look the latest tags up, `show --offline` does neither,
\* `update-comments` only resolves the tags.  A command that has written
\* is run again.
WfScan ==
    /\ wf.pc \in {"scan", "updated"}
    /\ wf.pc = "updated" => wf.run < MaxRuns
    /\ \E command \in IF wf.pc = "updated" THEN {wf.command}
                       ELSE {"show", "show --offline", "update-comments", "upgrade"} :
         LET scanned(out) ==
                 [wf EXCEPT !.pc = IF out.raised # None THEN "raised" ELSE "scanned",
                            !.run = IF wf.pc = "updated" THEN @ + 1 ELSE @,
                            !.command = command,
                            !.rows = out.rows, !.raised = out.raised, !.calls = out.calls,
                            !.resolutions = out.resolutions, !.lookups = out.lookups]
         IN wf' = scanned(scan_workflows(wf.api, wf.lines,
                                         command # "show --offline",
                                         command \in {"show", "upgrade"}))
    /\ UNCHANGED <<lkVars, gh, ch, td, sc>>

\* the command `update-comments` after its scan, when a row needs an
\* update: modified = update_comments(rows)
WfUpdateComments ==
    /\ wf.pc = "scanned" /\ wf.command = "update-comments"
    /\ \E j \in 1..Len(wf.rows) : wf.rows[j].stale \in {"yes", "missing", "no-desc"}
    /\ LET updated(out) ==
               [wf EXCEPT !.pc = IF out.raised # None THEN "raised" ELSE "updated",
                          !.op = "update_comments", !.synced = wf.rows,
                          !.before = wf.lines, !.lines = out.lines,
                          !.raised = out.raised, !.modified = out.modified]
       IN wf' = updated(update_comments(wf.api, wf.rows, wf.exists, wf.lines))
    /\ UNCHANGED <<lkVars, gh, ch, td, sc>>

\* the workflow file is deleted between the scan and the write
WfDelete ==
    /\ wf.pc = "scanned" /\ wf.command = "update-comments" /\ wf.exists
    /\ wf' = [wf EXCEPT !.exists = FALSE, !.lines = <<>>]
    /\ UNCHANGED <<lkVars, gh, ch, td, sc>>

WfNext == WfScan \/ WfUpdateComments \/ WfDelete

SpecWorkflows == WfInit /\ [][WfNext]_vars

(***************************************************************************)
(* The upgrade commands, and a workflow file that is edited between the    *)
(* scan and the write                                                      *)
(***************************************************************************)
UpInit ==
    /\ LkOff /\ gh = Off /\ ch = Off /\ td = Off /\ sc = Off
    /\ LET sha == [k \in 1..40 |-> "a"]
           uses(prefix, action, trail) == prefix \o action \o <<"@">> \o sha \o trail
           dash == <<"-", " ", "u", "s", "e", "s", ":", " ">>
           one == { <<uses(prefix, <<"o", "/", "r">>, trail) \o end>> :
                      prefix \in { dash, <<" ", " ", "-", " ", "u", "s", "e", "s", ":">> },
                      trail \in { <<>>, <<" ", "#", " ", "v", "3">>, <<" ", "#", " ", "v", "3", ".", "1">>, <<" ", "#", " ", "C", "h", "e", "c", "k", "o", "u", "t", " ", "(", "v", "3", ".", "1", ")">>,
                                  <<" ", "#", " ", "C", "h", "e", "c", "k", "o", "u", "t", " ", "c", "o", "d", "e">> },
                      end \in {<<"\n">>, <<>>} }
           first == { <<"n", "a", "m", "e", ":", " ", "C", "I", "\n">>, <<"n", "a", "m", "e", ":", " ", "C", "I", "\r", "\n">>,
                      uses(dash, <<"o", "/", "r">>, <<" ", "#", " ", "v", "3">>) \o <<"\n">>,
                      uses(dash, <<"p", "/", "q">>, <<" ", "#", " ", "v", "1", ".", "0">>) \o <<"\n">> }
           second == { uses(dash, <<"o", "/", "r", "/", "i", "n", "i", "t">>, <<>>) \o <<"\n">>,
                       uses(dash, <<"o", "/", "r">>, <<" ", "#", " ", "C", "h", "e", "c", "k", "o", "u", "t", " ", "(", "v", "3", ".", "1", ")">>) \o <<"\n">>,
                       uses(dash, <<"p", "/", "q">>, <<>>) \o <<"\n">> }
           not_found == GhResponse("HTTPError", 404, TRUE, TRUE, JNull)
           ref(tag, commit) == [ref |-> <<"r", "e", "f", "s", "/", "t", "a", "g", "s", "/">> \o tag,
                                object |-> [sha |-> commit, type |-> "commit"]]
           v5 == <<"v", "5", ".", "0", ".", "1">>
           page1 == GhOk(JSON("list", <<[name |-> <<"v", "4">>, commit |-> [sha |-> ShaPinned]]>>))
           content(text) ==
               GhOk(JSON("dict", [content |-> [kind |-> "text", text |-> Chars(text)]]))
           apis == [ refs : { GhOk(JSON("list", <<ref(v5, ShaOther)>>)),
                              GhOk(JSON("list", <<ref(<<"v", "4">>, ShaPinned), ref(v5, ShaOther)>>)) },
                     peel : { not_found },
                     pages : { [p \in 1..TagPages |-> not_found],
                               [p \in 1..TagPages |-> IF p = 1 THEN page1 ELSE not_found] },
                     release : { not_found, GhOk(JSON("dict", [tag_name |-> v5])),
                                 GhOk(JSON("dict", [tag_name |-> <<"v", "4", ".", "0", ".", "0">>])) },
                     tags30 : { not_found },
                     action_yml : { not_found, content("description: Check out\n") },
                     action_yaml : { not_found } ]
       IN \E file \in one \cup { <<l1, l2>> : l1 \in first, l2 \in second }, api \in apis :
            wf = [pc |-> "scan", run |-> 1, api |-> api, exists |-> TRUE, lines |-> file,
                  before |-> file, rows |-> <<>>, raised |-> None, modified |-> 0,
                  calls |-> <<>>, edited |-> FALSE, op |-> "", action |-> Missing,
                  target |-> Missing, synced |-> <<>>,
                  resolutions |-> <<>>, lookups |-> <<>>, command |-> "",
                  upgrades |-> <<>>]

\* somebody edits the workflow file after it was scanned, before a command
\* writes or while `upgrade` waits for GitHub between two actions: a line is
\* put before the others, the first line is removed, the first line becomes
\* a `uses:` line of another action at another commit
WfEdit ==
    /\ \/ wf.pc = "scanned" /\ wf.command \in {"update-comments", "upgrade"}
       \/ wf.pc = "upgrading"
    /\ wf.exists /\ ~wf.edited
    /\ \E lines \in { <<<<"n", "a", "m", "e", ":", " ", "C", "I", "\n">>>> \o wf.lines, Tail(wf.lines),
                      [wf.lines EXCEPT ![1] = <<"-", " ", "u", "s", "e", "s", ":", " ", "x", "/", "y", "@">> \o ShaTagObject
                                               \o <<" ", "#", " ", "v", "1", ".", "0", "\n">>] } :
         wf' = [wf EXCEPT !.lines = lines, !.edited = TRUE]
    /\ UNCHANGED <<lkVars, gh, ch, td, sc>>

\* the command `upgrade <action> [version]`: count = upgrade_action(action_arg, target, rows)
WfUpgradeAction ==
    /\ wf.pc = "scanned" /\ wf.command = "upgrade"
    /\ \E action_arg \in { <<"o", "/", "r">>, <<"p", "/", "q">> }, version_arg \in { Missing, <<"v", "5", ".", "0", ".", "1">> } :
         LET _repo_slug(parts) == parts[1] \o <<"/">> \o parts[2]
             same_slug(r) == _repo_slug(SplitOn(r.action, "/")) = action_arg
             upgraded(target, out) ==
                 [wf EXCEPT !.pc = IF out.raised # None THEN "raised" ELSE "upgraded",
                            !.op = "upgrade_action", !.action = action_arg, !.target = target,
                            !.before = wf.lines, !.lines = out.lines,
                            !.raised = out.raised, !.modified = out.modified]
             to(target) ==
                 /\ target # Missing
                 /\ wf' = upgraded(target, upgrade_action(wf.api, action_arg, target, wf.rows,
                                                          wf.exists, wf.lines))
             found(matching) ==
                 /\ matching # <<>>
                 /\ to(IF version_arg # Missing THEN version_arg ELSE matching[1].latest_tag)
         IN found(SelectSeq(wf.rows, same_slug))
    /\ UNCHANGED <<lkVars, gh, ch, td, sc>>

\* the command `upgrade` without an action, when a row is upgradable:
\* upgrade_all_actions(rows) starts and lists its upgrades
WfUpgradeAll ==
    /\ wf.pc = "scanned" /\ wf.command = "upgrade"
    /\ \E j \in 1..Len(wf.rows) : wf.rows[j].upgradable = "yes"
    /\ wf' = [wf EXCEPT !.pc = "upgrading", !.op = "upgrade_all_actions",
                        !.before = wf.lines, !.modified = 0,
                        !.upgrades = _upgrades(wf.rows)]
    /\ UNCHANGED <<lkVars, gh, ch, td, sc>>

\* upgrade_all_actions goes on with its next upgrade: upgrade_action asks
\* GitHub for the commit of the tag, then reads and writes the file
WfUpgradeNext ==
    /\ wf.pc = "upgrading"
    /\ LET upgraded(out) ==
               [wf EXCEPT !.pc = IF out.raised # None THEN "raised"
                                 ELSE IF Len(wf.upgrades) = 1 THEN "upgraded"
                                 ELSE "upgrading",
                          !.upgrades = Tail(@),
                          !.lines = out.lines, !.raised = out.raised,
                          !.modified = @ + out.modified]
       IN wf' = upgraded(upgrade_action(wf.api, wf.upgrades[1].action,
                                        wf.upgrades[1].latest_tag, wf.rows, wf.exists,
                                        wf.lines))
    /\ UNCHANGED <<lkVars, gh, ch, td, sc>>

UpNext ==
    \/ WfScan \/ WfEdit \/ WfUpdateComments \/ WfUpgradeAction \/ WfUpgradeAll
    \/ WfUpgradeNext

SpecUpgrades == UpInit /\ [][UpNext]_vars

\* the comment of a `uses:` line names the tag: `# <tag>`, or `(<tag>)`
\* after a description
NamesTag(trail, tag) ==
    \/ Contains(trail, <<"#", " ">> \o tag)
    \/ Contains(trail, <<"#">>) /\ Contains(trail, <<"(">> \o tag \o <<")">>)

\* C7: a comment-sync run changes only the trailing comment of a `uses:`
\* line: every line rewritten by update_comments keeps the action reference
\* and the 40-character SHA it had before, and its comment afterwards names
\* the resolved tag, as `# <tag>` or as `# <description> (<tag>)`.
C7_RewrittenLineKeepsPinAndNamesTag ==
    LET kept(k, old, new) ==
            /\ old.ok /\ new.ok
            /\ new.action = old.action /\ new.ref = old.ref
            /\ \A j \in 1..Len(wf.rows) :
                 (wf.rows[j].line = k /\ wf.rows[j].resolved_tag # Missing)
                 => NamesTag(new.trail, wf.rows[j].resolved_tag)
    IN wf.pc = "updated" =>
         \A k \in 1..Len(wf.lines) :
           wf.lines[k] # wf.before[k] =>
             kept(k, _USES_RE(RStrip(wf.before[k], {"\n"})),
                     _USES_RE(RStrip(wf.lines[k], {"\n"})))

\* a tag of the form vX.Y[.Z[.W]], with or without the v
PlainVersion(tag) ==
    LET digits == {DigitChar[k] : k \in 1..10}
        numbers(parts) ==
            \A k \in 1..Len(parts) :
              parts[k] # <<>> /\ \A i \in 1..Len(parts[k]) : parts[k][i] \in digits
    IN numbers(SplitOn(RemovePrefix(tag, <<"v">>), "."))

\* the numbers of a plain version, missing segments treated as zero
NormalizedVersion(tag) ==
    LET digit(c) == CHOOSE d \in 0..9 : DigitChar[d + 1] = c
        value(part) ==
            LET f[i \in 0..Len(part)] == IF i = 0 THEN 0 ELSE 10 * f[i - 1] + digit(part[i])
            IN f[Len(part)]
        padded(parts) ==
            [k \in 1..Max({3, Len(parts)}) |->
               IF k <= Len(parts) THEN value(parts[k]) ELSE 0]
    IN padded(SplitOn(RemovePrefix(tag, <<"v">>), "."))

\* C8: the upgradable flag compares the current tag (resolved, else the
\* comment's) with the latest tag by normalized version, not as strings:
\* vA, vA.0 and vA.0.0 are equal, so a line on v4 whose latest tag is v4.0.0
\* is not upgradable, and vA.B and vA.C with B # C are never equal.
C8_UpgradableByNormalizedVersion ==
    LET compared(r, current) ==
            (PlainVersion(current) /\ PlainVersion(r.latest_tag))
            => (r.upgradable = "yes"
                  <=> NormalizedVersion(current) # NormalizedVersion(r.latest_tag))
    IN wf.pc = "scanned" =>
         \A j \in 1..Len(wf.rows) :
           compared(wf.rows[j], IF wf.rows[j].resolved_tag # Missing
                                THEN wf.rows[j].resolved_tag
                                ELSE wf.rows[j].comment_tag)

(***************************************************************************)
(* archive_todos: the todo file, the archive file and their .md.bak        *)
(* copies.  A file is [exists, content]; content is the text read with     *)
(* read_text.  td.last is the latest run: its flags, the files before it, *)
(* what it returned or raised.                                             *)
(***************************************************************************)
\* the last index of the match of `^- \[<boxes>\] .+(?:\n\n?(?=  ).*)*`
\* (MULTILINE) that starts at i, 0 when there is none; _COMPLETED_BLOCK_RE
\* has the boxes x and X
CompletedBlockEnd(text, i, boxes) ==
    LET eol(j) == IF j = 0 THEN Len(text) ELSE j - 1
        line_end(p) == eol(FindCharFrom(text, p, {"\n"}))
        \* after \n, or after \n\n: the lookahead (?=  ) and the rest of the line
        ext[e \in 0..Len(text)] ==
            IF e + 1 <= Len(text) /\ text[e + 1] = "\n"
            THEN IF e + 2 <= Len(text) /\ text[e + 2] = "\n"
                 THEN IF StartsWithAt(text, e + 3, <<" ", " ">>) THEN ext[line_end(e + 3)] ELSE e
                 ELSE IF StartsWithAt(text, e + 2, <<" ", " ">>) THEN ext[line_end(e + 2)] ELSE e
            ELSE e
    IN IF /\ LineStart(text, i)
          /\ StartsWithAt(text, i, <<"-", " ", "[">>)
          /\ i + 6 <= Len(text)
          /\ text[i + 3] \in boxes
          /\ text[i + 4] = "]" /\ text[i + 5] = " "
          /\ text[i + 6] # "\n"
       THEN ext[line_end(i + 6)]
       ELSE 0

\* findall: the matches from left to right, none overlapping another
FindAllBlocks(text, boxes) ==
    LET f[i \in 1..(Len(text) + 1)] ==
            IF i > Len(text) THEN <<>>
            ELSE IF CompletedBlockEnd(text, i, boxes) = 0 THEN f[i + 1]
            ELSE <<SubSeq(text, i, CompletedBlockEnd(text, i, boxes))>>
                   \o f[CompletedBlockEnd(text, i, boxes) + 1]
    IN f[1]

\* every item, checked or not
_collect_all_item_blocks(text) == FindAllBlocks(text, {"x", "X", " "})

_collect_completed_blocks(text) == FindAllBlocks(text, {"x", "X"})

_remove_blocks(text, blocks) ==
    LET \* re.sub(re.escape(block) + r"\n?", "", t, count=1)
        cut(t, pos, n) ==
            IF pos = 0 THEN t
            ELSE Slice(t, 1, pos - 1)
                   \o Slice(t, IF pos + n <= Len(t) /\ t[pos + n] = "\n"
                               THEN pos + n + 1 ELSE pos + n, Len(t))
        remove(t, block) == cut(t, FindFrom(t, 1, block), Len(block))
        f[k \in 0..Len(blocks)] == IF k = 0 THEN text ELSE remove(f[k - 1], blocks[k])
        \* re.sub(r"\n{3,}", "\n\n", t)
        collapse(t) ==
            LET g[i \in 1..(Len(t) + 1)] ==
                    IF i > Len(t) THEN <<>>
                    ELSE IF i >= 3 /\ t[i] = "\n" /\ t[i - 1] = "\n" /\ t[i - 2] = "\n"
                         THEN g[i + 1]
                    ELSE <<t[i]>> \o g[i + 1]
            IN g[1]
    IN collapse(f[Len(blocks)])

_build_archive_content(archive_content, blocks, month_header) ==
    LET completed == <<"#", "#", "#", " ", "C", "o", "m", "p", "l", "e", "t", "e", "d", "\n">>
        insert(content, items_text, pos) ==
            Slice(content, 1, pos - 1) \o items_text \o Slice(content, pos, Len(content))
        \* (header.*?)(### Completed\n+): c is where the first
        \* "### Completed\n" after the first header starts, 0 for none
        found(content, items_text, c) ==
            IF c = 0 THEN content \o items_text
            ELSE insert(content, items_text, SkipChars(content, c + Len(completed), {"\n"}))
        search(content, items_text, h) ==
            found(content, items_text, FindFrom(content, h + Len(month_header), completed))
        section(content) ==
            search(content, JoinWith(blocks, "\n") \o <<"\n">>,
                   FindFrom(content, 1, month_header))
        with_month(content) ==
            IF Contains(content, month_header) THEN content
            ELSE content \o <<"\n">> \o month_header \o <<"\n", "\n", "#", "#", "#", " ", "C", "o", "m", "p", "l", "e", "t", "e", "d", "\n", "\n">>
        with_newline(content) ==
            IF EndsWith(content, <<"\n">>) THEN content ELSE content \o <<"\n">>
    IN section(with_month(with_newline(archive_content)))

\* no write of the run fails
NoFault == [step |-> "none", kept |-> 0]

\* the files after archive_todos(), its return value and the exception that
\* leaves it.  fault is the write that fails, if one does: the copy of a
\* backup or write_text, which fails when it opens the file (kept = -1, the
\* file stays as it was) or after it has written `kept` characters of more
\* (the file holds those); whatever was written before stays written
archive_todos(files, dry_run, backup, month_header, fault) ==
    LET result(ret, raised, after, blocks) ==
            [ret |-> ret, raised |-> raised, files |-> after, blocks |-> blocks]
        file(content) == [exists |-> TRUE, content |-> content]
        \* the file `old` after a write of content at this step
        put(step, old, content) ==
            IF fault.step # step \/ fault.kept >= Len(content) THEN file(content)
            ELSE IF fault.kept < 0 THEN old
            ELSE file(Slice(content, 1, fault.kept))
        fails(step, content) == fault.step = step /\ fault.kept < Len(content)
        write_archive(blocks, after, new_archive_content) ==
            result(IF fails("write_archive", new_archive_content) THEN 0 ELSE Len(blocks),
                   IF fails("write_archive", new_archive_content) THEN "OSError" ELSE None,
                   [after EXCEPT !.archive = put("write_archive", @, new_archive_content)],
                   blocks)
        write_todo(blocks, after, new_todo_content, new_archive_content) ==
            IF fails("write_todo", new_todo_content)
            THEN result(0, "OSError",
                        [after EXCEPT !.todo = put("write_todo", @, new_todo_content)], blocks)
            ELSE write_archive(blocks, [after EXCEPT !.todo = file(new_todo_content)],
                               new_archive_content)
        copy_archive(blocks, after, new_todo_content, new_archive_content) ==
            IF fails("copy_archive", files.archive.content)
            THEN result(0, "OSError",
                        [after EXCEPT !.archive_bak =
                                         put("copy_archive", @, files.archive.content)],
                        blocks)
            ELSE write_todo(blocks, [after EXCEPT !.archive_bak = files.archive],
                            new_todo_content, new_archive_content)
        copy_todo(blocks, new_todo_content, new_archive_content) ==
            IF ~backup THEN write_todo(blocks, files, new_todo_content, new_archive_content)
            ELSE IF fails("copy_todo", files.todo.content)
                 THEN result(0, "OSError",
                             [files EXCEPT !.todo_bak =
                                              put("copy_todo", @, files.todo.content)],
                             blocks)
            ELSE copy_archive(blocks, [files EXCEPT !.todo_bak = files.todo],
                              new_todo_content, new_archive_content)
        archive(blocks) ==
            IF blocks = <<>> THEN result(0, None, files, blocks)
            ELSE IF dry_run THEN result(Len(blocks), None, files, blocks)
            ELSE copy_todo(blocks,
                           _remove_blocks(read_text(files.todo.content), blocks),
                           _build_archive_content(read_text(files.archive.content), blocks,
                                                  month_header))
    IN IF ~files.todo.exists \/ ~files.archive.exists THEN result(-1, None, files, <<>>)
       ELSE archive(_collect_completed_blocks(read_text(files.todo.content)))

\* main without its `if count < 0: return 1`
main_ignoring_count(files, dry_run, no_backup, month_header, fault) ==
    LET exit(out) ==
            [ret |-> out.ret, raised |-> out.raised, files |-> out.files,
             blocks |-> out.blocks,
             exit |-> IF out.raised # None THEN 1 ELSE 0]
    IN exit(archive_todos(files, dry_run, ~no_backup, month_header, fault))

\* the exit code of the script; an exception that leaves main ends the
\* process with a traceback and exit code 1
main(files, dry_run, no_backup, month_header, fault) ==
    LET exit(out) ==
            [ret |-> out.ret, raised |-> out.raised, files |-> out.files,
             blocks |-> out.blocks,
             exit |-> IF out.raised # None \/ out.ret < 0 THEN 1 ELSE 0]
    IN exit(archive_todos(files, dry_run, ~no_backup, month_header, fault))

MaxLines == 3

\* datetime.now().strftime("## %B %Y")
MonthHeader == <<"#", "#", " ", "J", "u", "n", "e", " ", "2", "0", "2", "6">>

\* todo files of up to MaxLines lines: checked and unchecked items, an
\* unchecked item that quotes a checked one, an indented note, a blank
\* line; archive files with and without the month's section
TdInit ==
    LET lines == { <<"-", " ", "[", "x", "]", " ", "A">>, <<"-", " ", "[", "X", "]", " ", "B">>, <<"-", " ", "[", " ", "]", " ", "K">>, <<"-", " ", "[", " ", "]", " ", "K", " ", "-", " ", "[", "x", "]", " ", "A", " ", "b">>,
                   <<" ", " ", "n">>, <<>> }
        RECURSIVE texts(_)
        texts(n) == IF n = 0 THEN {<<>>}
                    ELSE texts(n - 1)
                         \cup { t \o l \o <<"\n">> : t \in texts(n - 1), l \in lines }
        no_file == [exists |-> FALSE, content |-> <<>>]
        file(content) == [exists |-> TRUE, content |-> content]
        archives == { no_file, file(<<"#", " ", "A", "r", "c", "h", "i", "v", "e", "\n">>),
                      file(<<"#", " ", "A", "r", "c", "h", "i", "v", "e", "\n", "\n", "#", "#", " ", "J", "u", "n", "e", " ", "2", "0", "2", "6", "\n", "\n", "#", "#", "#", " ", "C", "o", "m", "p", "l", "e", "t", "e", "d", "\n", "\n", "-", " ", "[", "x", "]", " ", "O", "l", "d", "\n">>),
                      file(<<"#", "#", " ", "J", "u", "n", "e", " ", "2", "0", "2", "6">>) }
    IN /\ LkOff /\ gh = Off /\ ch = Off /\ wf = Off /\ sc = Off
       /\ \E todo \in {no_file} \cup {file(t) : t \in texts(MaxLines)},
             archive \in archives :
            td = [pc |-> "idle",
                  files |-> [todo |-> todo, archive |-> archive,
                             todo_bak |-> no_file, archive_bak |-> no_file],
                  runs |-> 0, last |-> <<>>]

\* blocks = _collect_completed_blocks(text); cleaned = _remove_blocks(text, blocks)
TdRoundTrip ==
    /\ td.pc = "idle" /\ td.runs = 0 /\ td.files.todo.exists
    /\ LET removed(text, blocks) ==
               [pc |-> "round_trip", text |-> text, blocks |-> blocks,
                cleaned |-> _remove_blocks(text, blocks)]
       IN td' = removed(td.files.todo.content,
                        _collect_completed_blocks(td.files.todo.content))
    /\ UNCHANGED <<lkVars, gh, ch, wf, sc>>

\* the ways a run of the script on these files can fail: each copy and each
\* write, at the opening of the file and after every number of characters
WriteFaults(files, dry_run, backup, month_header) ==
    LET at(step, content) ==
            {[step |-> step, kept |-> n] : n \in (-1)..(Len(content) - 1)}
        writes(blocks) ==
            at("write_todo", _remove_blocks(read_text(files.todo.content), blocks))
            \cup at("write_archive",
                    _build_archive_content(read_text(files.archive.content), blocks,
                                           month_header))
        copies == IF ~backup THEN {}
                  ELSE at("copy_todo", files.todo.content)
                       \cup at("copy_archive", files.archive.content)
        run(blocks) == IF blocks = <<>> \/ dry_run THEN {} ELSE copies \cup writes(blocks)
    IN IF ~files.todo.exists \/ ~files.archive.exists THEN {}
       ELSE run(_collect_completed_blocks(read_text(files.todo.content)))

\* python archive_todos.py [--dry-run] [--no-backup]; a write can fail in the
\* first run, and no further run is followed after one that failed
TdMain ==
    /\ td.pc = "idle" /\ td.runs < MaxRuns
    /\ td.runs > 0 => td.last.raised = None
    /\ \E dry_run \in BOOLEAN, no_backup \in BOOLEAN :
       \E fault \in {NoFault} \cup (IF td.runs > 0 THEN {}
                                   ELSE WriteFaults(td.files, dry_run, ~no_backup, MonthHeader)) :
         LET ran(out) ==
                 [td EXCEPT !.files = out.files, !.runs = @ + 1,
                            !.last = [ret |-> out.ret, raised |-> out.raised,
                                      exit |-> out.exit, blocks |-> out.blocks,
                                      dry_run |-> dry_run, backup |-> ~no_backup,
                                      before |-> td.files]]
         IN td' = ran(main(td.files, dry_run, no_backup, MonthHeader, fault))
    /\ UNCHANGED <<lkVars, gh, ch, wf, sc>>

TdNext == TdRoundTrip \/ TdMain

SpecTodos == TdInit /\ [][TdNext]_vars

\* the top-level unchecked items of a todo text, in order
UncheckedItems(text) ==
    SelectSeq(SplitOn(text, "\n"), LAMBDA line : StartsWith(line, <<"-", " ", "[", " ", "]", " ">>))

\* the number of blank lines of a text
BlankLines(text) ==
    Cardinality({i \in 1..Len(text) : text[i] = "\n" /\ (i = 1 \/ text[i - 1] = "\n")})

\* C9: for any todo text, removing the blocks that _collect_completed_blocks
\* returns from that same text leaves no occurrence of any collected block,
\* leaves every uncompleted item unchanged, and collapses no more than one
\* blank line.
C9_CollectedBlocksRemovedCleanly ==
    td.pc = "round_trip" =>
      /\ \A k \in 1..Len(td.blocks) : ~Contains(td.cleaned, td.blocks[k])
      /\ UncheckedItems(td.cleaned) = UncheckedItems(td.text)
      /\ BlankLines(td.text) - BlankLines(td.cleaned) <= 1

\* no line of the todo text is a checked top-level item
NoCheckedItems(text) ==
    \A k \in 1..Len(SplitOn(text, "\n")) :
      /\ ~StartsWith(SplitOn(text, "\n")[k], <<"-", " ", "[", "x", "]", " ">>)
      /\ ~StartsWith(SplitOn(text, "\n")[k], <<"-", " ", "[", "X", "]", " ">>)

\* C10: archiving is idempotent on a todo file with no checked items: each
\* run, the first and every later one, returns a count of zero and leaves
\* the todo file and the archive file byte-identical (and makes no backup).
C10_NoCheckedItemsNoChange ==
    ( /\ td.pc = "idle" /\ td.runs >= 1
      /\ td.last.before.todo.exists /\ td.last.before.archive.exists
      /\ NoCheckedItems(td.last.before.todo.content) )
    => /\ td.last.ret = 0 /\ td.last.raised = None
       /\ td.files = td.last.before

C10_Witness_SecondRunReturnsZero ==
    /\ td.pc = "idle" /\ td.runs >= 2
    /\ td.last.before.todo.exists /\ td.last.before.archive.exists
    /\ NoCheckedItems(td.last.before.todo.content)
    /\ Contains(td.last.before.todo.content, <<"-", " ", "[", " ", "]", " ", "K">>)
    /\ ~td.last.dry_run
    /\ td.last.ret = 0 /\ td.files = td.last.before

\* C11: a run of archive_todos that fails part-way never leaves its change
\* only partly applied: of the files it set out to change, the todo file
\* and the archive file, either both are changed or neither is.
C11_FailedRunChangesAllOrNothing ==
    (td.pc = "idle" /\ td.runs >= 1 /\ td.last.raised # None)
    => \/ td.files.todo = td.last.before.todo /\ td.files.archive = td.last.before.archive
       \/ td.files.todo # td.last.before.todo /\ td.files.archive # td.last.before.archive

\* C12: when the workflow file named in the scan rows can no longer be read
\* at the time update_comments runs (deleted between scan and write), its
\* rows are skipped: no exception is raised and no line is counted.
C12_DeletedFileIsSkipped ==
    (wf.pc \in {"updated", "raised"} /\ ~wf.exists)
    => wf.raised = None /\ wf.modified = 0

(***************************************************************************)
(* External commands: scripts/bootstrap.py, scripts/doctor.py,             *)
(* scripts/repo_doctor.py, scripts/apply_labels.py                         *)
(*                                                                         *)
(* A command is what the operating system answers when a script starts it: *)
(* whether shutil.which finds it, what exec does ("ok" or the OSError it   *)
(* raises), whether the process ever ends, the seconds it takes, its exit  *)
(* status and what it prints ("dict": a JSON object, "list": another JSON  *)
(* value, "text": not JSON, "digits": a JSON number of more digits than    *)
(* int() converts, "nested": JSON nested deeper than the recursion limit,  *)
(* "undecodable": bytes that are not text).                                *)
(* A timeout is <<n>> for timeout=n and <<>> for no timeout.  A function   *)
(* that runs commands yields [timeouts, returned, raised, ret]: the        *)
(* timeouts it passed, whether control ever comes back, the exception that *)
(* leaves it (None when it returns) and its return value.                  *)
(***************************************************************************)
Command(which, exec, hangs, seconds, returncode, stdout) ==
    [which |-> which, exec |-> exec, hangs |-> hangs, seconds |-> seconds,
     returncode |-> returncode, stdout |-> stdout]

\* subprocess.run(cmd, capture_output=capture, text=True, check=check,
\*                timeout=timeout)
subprocess_run(c, timeout, check, capture) ==
    LET r(returned, raised) ==
            [timeouts |-> {timeout}, returned |-> returned, raised |-> raised,
             returncode |-> c.returncode, stdout |-> c.stdout]
    IN  CASE c.exec # "ok"                         -> r(TRUE, c.exec)
          [] c.hangs /\ timeout = <<>>             -> r(FALSE, None)
          [] c.hangs                               -> r(TRUE, "TimeoutExpired")
          [] timeout # <<>> /\ c.seconds > timeout[1] -> r(TRUE, "TimeoutExpired")
          [] capture /\ c.stdout = "undecodable"   -> r(TRUE, "UnicodeDecodeError")
          [] check /\ c.returncode # 0             -> r(TRUE, "CalledProcessError")
          [] OTHER                                 -> r(TRUE, None)

\* repo_doctor._run_git; _GIT_CMD is shutil.which("git")
_run_git(c) ==
    IF ~c.which
    THEN [timeouts |-> {}, returned |-> TRUE, raised |-> None,
          ret |-> <<1, "", "git not found on PATH">>]
    ELSE LET p == subprocess_run(c, <<>>, FALSE, TRUE)
         IN  [timeouts |-> p.timeouts, returned |-> p.returned, raised |-> p.raised,
              ret |-> <<p.returncode, p.stdout, "">>]

\* apply_labels.run
run(c) ==
    LET p == subprocess_run(c, <<>>, FALSE, TRUE)
    IN  [timeouts |-> p.timeouts, returned |-> p.returned, raised |-> p.raised,
         ret |-> <<p.returncode, p.stdout>>]

_TIMEOUT == 300

\* bootstrap.run_cmd
run_cmd(c, check, capture, dry_run, timeout) ==
    IF dry_run
    THEN [timeouts |-> {}, returned |-> TRUE, raised |-> None,
          returncode |-> 0, stdout |-> ""]
    ELSE subprocess_run(c, <<timeout>>, check, capture)

\* bootstrap.check_hatch; c answers "hatch --version"
check_hatch(c) ==
    IF ~c.which
    THEN [timeouts |-> {}, returned |-> TRUE, raised |-> None, ret |-> FALSE]
    ELSE LET p == run_cmd(c, FALSE, TRUE, FALSE, _TIMEOUT)
         IN  [timeouts |-> p.timeouts, returned |-> p.returned, raised |-> p.raised,
              ret |-> p.raised = None /\ p.returned /\ p.returncode = 0]

\* set(json.loads(stdout).keys()); a JSON object has the single key "default"
json_loads_keys(stdout) ==
    CASE stdout = "dict"   -> [raised |-> None, ret |-> {"default"}]
      [] stdout = "list"   -> [raised |-> "AttributeError", ret |-> {}]
      [] stdout = "digits" -> [raised |-> "ValueError", ret |-> {}]
      [] stdout = "nested" -> [raised |-> "RecursionError", ret |-> {}]
      [] OTHER             -> [raised |-> "JSONDecodeError", ret |-> {}]

\* bootstrap.create_hatch_env; `show` answers "hatch env show --json" and
\* `slow` answers every "hatch env create" and "hatch run".  ret is all_ok,
\* `created` the environments for which run_cmd was called with
\* "hatch env create".
create_hatch_env(show, slow, skip_test_matrix, dry_run) ==
    LET envs == <<"default", "docs">> \o
                (IF skip_test_matrix THEN <<>>
                 ELSE <<"test.py3.11", "test.py3.12", "test.py3.13">>)
        start == [timeouts |-> {}, returned |-> TRUE, raised |-> None,
                  all_ok |-> TRUE, created |-> <<>>, existing_env_names |-> {}]
        \* with contextlib.suppress(json.JSONDecodeError, AttributeError)
        keys(st, k) ==
            IF k.raised = None THEN [st EXCEPT !.existing_env_names = k.ret]
            ELSE IF ExcBases(k.raised) \cap {"JSONDecodeError", "AttributeError"} # {}
            THEN st
            ELSE [st EXCEPT !.raised = k.raised]
        queried(q) ==
            LET st == [start EXCEPT !.timeouts = q.timeouts, !.returned = q.returned,
                                    !.raised = q.raised]
            IN  IF q.raised # None \/ ~q.returned \/ q.returncode # 0 THEN st
                ELSE keys(st, json_loads_keys(q.stdout))
        RECURSIVE loop(_, _)
        loop(i, st) ==
            IF i > Len(envs) \/ st.raised # None \/ ~st.returned THEN st
            ELSE IF ~dry_run /\ envs[i] \in st.existing_env_names THEN loop(i + 1, st)
            ELSE LET p == run_cmd(slow, TRUE, FALSE, dry_run, _TIMEOUT)
                     caught == p.raised = "CalledProcessError"
                 IN  loop(i + 1,
                          [st EXCEPT !.timeouts = @ \cup p.timeouts,
                                     !.returned = p.returned,
                                     !.raised   = IF caught THEN None ELSE p.raised,
                                     !.all_ok   = @ /\ ~caught,
                                     !.created  = Append(@, envs[i])])
        verify(st) ==
            IF st.raised # None \/ ~st.returned \/ ~st.all_ok \/ dry_run THEN st
            ELSE LET p == run_cmd(slow, TRUE, TRUE, FALSE, _TIMEOUT)
                     caught == p.raised = "CalledProcessError"
                 IN  [st EXCEPT !.timeouts = @ \cup p.timeouts,
                                !.returned = p.returned,
                                !.raised   = IF caught THEN None ELSE p.raised,
                                !.all_ok   = ~caught]
        done(out) ==
            [timeouts |-> out.timeouts, returned |-> out.returned, raised |-> out.raised,
             ret |-> out.all_ok, created |-> out.created]
    IN  done(verify(loop(1, IF dry_run THEN start
                            ELSE queried(run_cmd(show, FALSE, TRUE, FALSE, _TIMEOUT)))))

\* doctor.get_version; `absolute` is whether cmd[0] is an absolute path that
\* exists.  The text returned is the first line the command prints.
get_version(c, absolute) ==
    IF ~absolute /\ ~c.which
    THEN [timeouts |-> {}, returned |-> TRUE, raised |-> None, ret |-> "not found"]
    ELSE LET p == subprocess_run(c, <<10>>, FALSE, TRUE)
             \* except (subprocess.TimeoutExpired, OSError)
             caught == /\ p.raised # None
                       /\ ExcBases(p.raised) \cap {"TimeoutExpired", "OSError"} # {}
         IN  IF caught
             THEN [timeouts |-> p.timeouts, returned |-> TRUE, raised |-> None,
                   ret |-> "error"]
             ELSE [timeouts |-> p.timeouts, returned |-> p.returned,
                   raised |-> p.raised, ret |-> p.stdout]

\* what the operating system may answer to a command
ScAnswers ==
    { Command(w, e, h, s, rc, o) :
        w \in BOOLEAN, e \in {"ok", "FileNotFoundError", "PermissionError", "OSError"},
        h \in BOOLEAN, s \in {1, 20, 400}, rc \in {0, 1},
        o \in {"dict", "list", "text", "digits", "nested", "undecodable"} }

\* the commands a script may meet: `c` answers the command the function
\* starts first, `slow` the commands create_hatch_env starts after its query
ScInit ==
    /\ LkOff /\ gh = Off /\ ch = Off /\ wf = Off /\ td = Off
    /\ \E c \in ScAnswers, sh \in BOOLEAN, ss \in {1, 400}, src \in {0, 1} :
         sc = [pc |-> "idle", c |-> c,
               slow |-> Command(TRUE, "ok", sh, ss, src, "text"),
               fn |-> "", out |-> <<>>]

\* the script after it has called fn: it has an answer or waits for ever
ScCalled(fn, out) ==
    [sc EXCEPT !.pc = IF out.returned THEN "returned" ELSE "waiting",
               !.fn = fn, !.out = out]

ScRunGit ==
    /\ sc.pc = "idle"
    /\ sc' = ScCalled("_run_git", _run_git(sc.c))
    /\ UNCHANGED <<lkVars, gh, ch, wf, td>>

ScRun ==
    /\ sc.pc = "idle"
    /\ sc' = ScCalled("run", run(sc.c))
    /\ UNCHANGED <<lkVars, gh, ch, wf, td>>

\* bootstrap.main as far as check_hatch: when the prerequisites are met the
\* script goes on ("checked"), otherwise it returns 1 or the exception leaves
ScCheckHatch ==
    /\ sc.pc = "idle"
    /\ LET checked(out) ==
               IF out.returned /\ out.raised = None /\ out.ret
               THEN [sc EXCEPT !.pc = "checked", !.fn = "check_hatch", !.out = out]
               ELSE ScCalled("check_hatch", out)
       IN  sc' = checked(check_hatch(sc.c))
    /\ UNCHANGED <<lkVars, gh, ch, wf, td>>

\* bootstrap.main goes on with create_hatch_env; hatch is on the PATH, as
\* check_hatch found
ScCreateHatchEnv ==
    /\ sc.pc = "checked"
    /\ \E show \in {c \in ScAnswers : c.which}, skip_test_matrix \in BOOLEAN,
          dry_run \in BOOLEAN :
         sc' = ScCalled("create_hatch_env",
                        create_hatch_env(show, sc.slow, skip_test_matrix, dry_run))
    /\ UNCHANGED <<lkVars, gh, ch, wf, td>>

ScGetVersion ==
    /\ sc.pc = "idle"
    /\ \E absolute \in BOOLEAN :
         sc' = ScCalled("get_version", get_version(sc.c, absolute))
    /\ UNCHANGED <<lkVars, gh, ch, wf, td>>

ScNext == ScRunGit \/ ScRun \/ ScCheckHatch \/ ScCreateHatchEnv \/ ScGetVersion

SpecCommands == ScInit /\ [][ScNext]_vars

\* C13: every subprocess invocation carries a finite timeout, so that no
\* script waits indefinitely on a hung external command: whenever a script
\* has started commands, each was started with a timeout, and control has
\* come back to the script.
C13_EveryCommandHasAFiniteTimeout ==
    (sc.pc \in {"returned", "waiting"})
    => /\ \A t \in sc.out.timeouts : t # <<>>
       /\ sc.out.returned

\* C14: a missing tool, a timeout or a malformed response during a script's
\* external call is never raised as an exception out of the function that
\* makes the call (none of bootstrap.main, doctor.collect_diagnostics,
\* repo_doctor's checks and apply_labels.main catches what these raise).
C14_ExternalFailureIsNotRaised ==
    (sc.pc = "returned") => sc.out.raised = None

(***************************************************************************)
(* scripts/doctor.py: collect_diagnostics and its worker pool              *)
(*                                                                         *)
(* The main thread submits one get_version call per tool, takes the        *)
(* futures as as_completed yields them (any finished future that it has    *)
(* not yet taken) and leaves the `with` block, whose exit waits for every  *)
(* worker.  A dict is the sequence of its <<key, value>> pairs in          *)
(* insertion order.                                                        *)
(***************************************************************************)
tool_cmds ==
    <<"hatch", "pip", "task", "ruff", "mypy", "pytest", "pre-commit", "git",
      "actionlint", "cz">>

\* the number of tools of tool_cmds the model runs with
MaxTools == 3

\* {name: tools[name] for name in tool_cmds}
InfoToolsAsCollected(tools, names) == tools

InfoTools(tools, names) ==
    [i \in 1..Len(names) |->
        <<names[i], (CHOOSE kv \in {tools[j] : j \in DOMAIN tools} : kv[1] = names[i])[2]>>]

DrInit ==
    /\ LkOff /\ gh = Off /\ ch = Off /\ wf = Off /\ td = Off
    /\ sc = [pc |-> "submit",
             futures |-> [i \in 1..MaxTools |->
                             [state |-> "pending", raised |-> None, ret |-> ""]],
             tools |-> <<>>, info_tools |-> <<>>]

\* pool.submit(get_version, cmd): with max_workers=len(tool_cmds) a worker
\* starts on it at once
DrSubmit ==
    /\ sc.pc = "submit"
    /\ LET i == CHOOSE i \in 1..MaxTools :
                    /\ sc.futures[i].state = "pending"
                    /\ \A j \in 1..(i - 1) : sc.futures[j].state # "pending"
       IN  sc' = [sc EXCEPT !.futures[i].state = "running",
                            !.pc = IF i = MaxTools THEN "collect" ELSE "submit"]
    /\ UNCHANGED <<lkVars, gh, ch, wf, td>>

\* a worker thread finishes get_version for tool i; the command of pip is
\* sys.executable, an absolute path that exists unless it is empty or gone
DrWorker ==
    /\ \E i \in 1..MaxTools :
         /\ sc.futures[i].state = "running"
         /\ \E w \in BOOLEAN, h \in BOOLEAN, o \in {"text", "undecodable"},
               absolute \in (IF tool_cmds[i] = "pip" THEN BOOLEAN ELSE {FALSE}) :
              LET out == get_version(Command(w, "ok", h, 1, 0, o), absolute)
              IN  sc' = [sc EXCEPT !.futures[i] =
                            [state |-> "done", raised |-> out.raised,
                             ret |-> IF out.raised = None THEN out.ret ELSE ""]]
    /\ UNCHANGED <<lkVars, gh, ch, wf, td>>

\* one turn of `for future in as_completed(futures)`:
\* tools[futures[future]] = future.result()
DrCollect ==
    /\ sc.pc = "collect"
    /\ \E i \in 1..MaxTools :
         /\ sc.futures[i].state = "done"
         /\ \A j \in DOMAIN sc.tools : sc.tools[j][1] # tool_cmds[i]
         /\ sc' = IF sc.futures[i].raised # None
                  THEN [sc EXCEPT !.pc = "unwinding"]
                  ELSE [sc EXCEPT !.tools = Append(@, <<tool_cmds[i], sc.futures[i].ret>>)]
    /\ UNCHANGED <<lkVars, gh, ch, wf, td>>

\* the loop is over; the `with` block is left and info["tools"] is built
DrJoin ==
    /\ sc.pc = "collect"
    /\ Len(sc.tools) = MaxTools
    /\ sc' = [sc EXCEPT !.pc = "joined",
                        !.info_tools = InfoTools(sc.tools, SubSeq(tool_cmds, 1, MaxTools))]
    /\ UNCHANGED <<lkVars, gh, ch, wf, td>>

\* future.result() raised: the `with` block is left by the exception, after
\* shutdown(wait=True) has waited for every worker
DrUnwind ==
    /\ sc.pc = "unwinding"
    /\ \A i \in 1..MaxTools : sc.futures[i].state = "done"
    /\ sc' = [sc EXCEPT !.pc = "raised"]
    /\ UNCHANGED <<lkVars, gh, ch, wf, td>>

DrNext == DrSubmit \/ DrWorker \/ DrCollect \/ DrJoin \/ DrUnwind

SpecDoctor == DrInit /\ [][DrNext]_vars

\* C15: once collect_diagnostics is past the worker pool, every submitted
\* version check has completed, and info["tools"] holds exactly one result
\* for each configured tool, the result of that tool's check, in the order
\* of tool_cmds, whatever order the checks completed or were taken in.
C15_PoolJoinedAndToolsInDefinitionOrder ==
    (sc.pc \in {"joined", "raised"})
    => /\ \A i \in 1..MaxTools : sc.futures[i].state = "done"
       /\ sc.pc = "joined" =>
            sc.info_tools = [i \in 1..MaxTools |-> <<tool_cmds[i], sc.futures[i].ret>>]

\* the checks were taken in another order than that of tool_cmds
C15_Witness_TakenOutOfOrder ==
    /\ sc.pc = "joined"
    /\ sc.tools # sc.info_tools
    /\ Len(sc.info_tools) = MaxTools

\* C16: for each scanned `uses:` line, stale is "yes" exactly when the
\* comment has a tag, a tag was resolved and the two differ; "missing"
\* exactly when the comment has no tag and a tag was resolved; otherwise
\* "no-desc" when a tag is known (from the comment or resolved) and the
\* comment has no description, and empty in every other case.
C16_StaleClassification ==
    (wf.pc \in {"scanned", "updated"})
    => \A i \in DOMAIN wf.rows :
         LET r == wf.rows[i]
             differs == r.comment_tag # Missing /\ r.resolved_tag # Missing
                        /\ r.comment_tag # r.resolved_tag
             untagged == r.comment_tag = Missing /\ r.resolved_tag # Missing
             known == r.comment_tag # Missing \/ r.resolved_tag # Missing
         IN  /\ (r.stale = "yes") <=> differs
             /\ (r.stale = "missing") <=> untagged
             /\ (r.stale = "no-desc")
                  <=> (~differs /\ ~untagged /\ known /\ r.has_description # "yes")
             /\ r.stale \in {"yes", "missing", "no-desc", ""}

\* a file was scanned whose lines fall into different classes, one of them
\* with a known tag and no description
C16_Witness_NoDescAndAnotherClass ==
    /\ wf.pc = "scanned"
    /\ \E i, j \in DOMAIN wf.rows :
         /\ wf.rows[i].stale = "no-desc"
         /\ wf.rows[j].stale \in {"yes", "missing", ""}

(***************************************************************************)
(* scripts/repo_doctor.py                                                  *)
(*                                                                         *)
(* Paths, patterns and file texts are character sequences.  The file       *)
(* system is [root, at]: the path of the repository and the entries, each  *)
(* under its path from "/" as the list of its names.  A file is [kind,     *)
(* readable, utf8, text, toml_ok, toml]: whether it can be read, whether   *)
(* its bytes are UTF-8, its text with the bytes that are not UTF-8 left    *)
(* out, whether the text is TOML and the keys of the document, each the    *)
(* list of names that leads to it, as a "table" or a "value".  A line of   *)
(* `git diff --name-status` is the pair <<status, path>> of the texts left *)
(* and right of its first TAB.  A rule's only_if is <<>> or                *)
(* <<[path, regex]>>.  A function that can raise yields [raised, ret].     *)
(***************************************************************************)
Rule(type, path, kind, level, category, regex, toml_path, only_if) ==
    [type |-> type, path |-> path, kind |-> kind, level |-> level,
     category |-> category, regex |-> regex, toml_path |-> toml_path,
     only_if |-> only_if]

\* the working tree every run of the model looks at: README.md, the file
\* pyproject.toml, bad.toml that is no TOML, and docs with a file that
\* cannot be read and one that is not UTF-8
RdTree ==
    LET file(readable, utf8, text, toml_ok, toml) ==
            [kind |-> "file", readable |-> readable, utf8 |-> utf8, text |-> text,
             toml_ok |-> toml_ok, toml |-> toml]
        dir == [kind |-> "dir"]
        r == <<"r">>
        docs == <<"d", "o", "c", "s">>
        none == [k \in {} |-> "value"]
    IN [root |-> <<r>>,
        at |-> (<<>> :> dir)
               @@ (<<r>> :> dir)
               @@ (<<r, <<"R", "E", "A", "D", "M", "E", ".", "m", "d">>>> :> file(TRUE, TRUE, <<"#", " ", "H", "e", "l", "l", "o">>, TRUE, none))
               @@ (<<r, docs>> :> dir)
               @@ (<<r, docs, <<"a", ".", "m", "d">>>> :> file(TRUE, TRUE, <<"g", "u", "i", "d", "e">>, FALSE, none))
               @@ (<<r, docs, <<"b", ".", "m", "d">>>> :> file(FALSE, TRUE, <<"n", "o", "p", "e">>, FALSE, none))
               @@ (<<r, docs, <<"c", ".", "m", "d">>>> :> file(TRUE, FALSE, <<"g", "u", "i">>, FALSE, none))
               @@ (<<r, <<"p", "y", "p", "r", "o", "j", "e", "c", "t", ".", "t", "o", "m", "l">>>>
                   :> file(TRUE, TRUE, <<"[", "t", "o", "o", "l", ".", "r", "u", "f", "f", "]", "\n", "x", " ", "=", " ", "1">>, TRUE,
                           (<<<<"t", "o", "o", "l">>>> :> "table") @@ (<<<<"t", "o", "o", "l">>, <<"r", "u", "f", "f">>>> :> "table")
                           @@ (<<<<"t", "o", "o", "l">>, <<"r", "u", "f", "f">>, <<"x">>>> :> "value")))
               @@ (<<r, <<"b", "a", "d", ".", "t", "o", "m", "l">>>> :> file(TRUE, TRUE, <<"x", " ", "=">>, FALSE, none))]

\* root / rel, as pathlib joins the two and the file system looks the
\* path up: [found, path].  pathlib drops the empty names and the names
\* ".", and an absolute rel replaces the root; the file system follows a
\* name only from a directory.  A name is shorter than NAME_MAX.
_target(tree, rel) ==
    LET kept(name) == name # <<>> /\ name # <<".">>
        names == SelectSeq(SplitOn(rel, "/"), kept)
        is_dir(path) == path \in DOMAIN tree.at /\ tree.at[path].kind = "dir"
        none == [found |-> FALSE, path |-> <<>>]
        into(path, name) ==
            IF name = <<".", ".">>
            THEN [found |-> TRUE, path |-> Slice(path, 1, Len(path) - 1)]
            ELSE [found |-> Append(path, name) \in DOMAIN tree.at, path |-> Append(path, name)]
        walk[k \in 0..Len(names)] ==
            IF k = 0
            THEN [found |-> TRUE, path |-> IF StartsWith(rel, <<"/">>) THEN <<>> ELSE tree.root]
            ELSE IF ~walk[k - 1].found \/ ~is_dir(walk[k - 1].path) THEN none
            ELSE into(walk[k - 1].path, names[k])
    IN IF \E k \in 1..Len(rel) : rel[k] = NUL THEN none ELSE walk[Len(names)]

_exists_kind(tree, rel, kind) ==
    LET found(target) ==
            /\ target.found
            /\ CASE kind = "dir" -> tree.at[target.path].kind = "dir"
                 [] kind = "any" -> TRUE
                 [] OTHER        -> tree.at[target.path].kind = "file"
    IN found(_target(tree, rel))

\* the files at or beneath rel
_iter_files_under(tree, rel) ==
    LET beneath(base) ==
            IF ~base.found THEN {}
            ELSE IF tree.at[base.path].kind = "file" THEN {base.path}
            ELSE { p \in DOMAIN tree.at :
                      /\ tree.at[p].kind = "file"
                      /\ Len(p) > Len(base.path)
                      /\ SubSeq(p, 1, Len(base.path)) = base.path }
    IN beneath(_target(tree, rel))

\* re.compile(pattern) for a pattern of text and no flags
\* (re._parser.parse): the parsed pattern, or the exception: "error" is
\* re.error, "OverflowError" a repetition count of MAXREPEAT or more.  The
\* result is "NotModelled" for a pattern with a construct whose matching is
\* left out here: back-references, named and conditional groups,
\* look-behind, atomic groups, possessive repeats, inline flags and \N{..}.
\* A node is [op, neg, items, at, min, max, kids]; a repeat without upper
\* bound has max = -1, and a count is kept up to CountCap.
re_compile(pattern) ==
    LET n == Len(pattern)
        DIGITS == {"0", "1", "2", "3", "4", "5", "6", "7", "8", "9"}
        OCTDIGITS == {"0", "1", "2", "3", "4", "5", "6", "7"}
        HEXDIGITS == DIGITS \cup {"a", "b", "c", "d", "e", "f", "A", "B", "C", "D", "E", "F"}
        ASCIILETTERS ==
            {"a", "b", "c", "d", "e", "f", "g", "h", "i", "j", "k", "l", "m", "n", "o", "p", "q",
             "r", "s", "t", "u", "v", "w", "x", "y", "z", "A", "B", "C", "D", "E", "F", "G", "H",
             "I", "J", "K", "L", "M", "N", "O", "P", "Q", "R", "S", "T", "U", "V", "W", "X", "Y",
             "Z"}
        FLAGS == {"i", "L", "m", "s", "x", "a", "t", "u"}
        MAXREPEAT == <<"4", "2", "9", "4", "9", "6", "7", "2", "9", "5">>
        CountCap == 1000000
        \* source.next: the character at i, None at the end of the pattern
        at(i) == IF i <= n THEN pattern[i] ELSE None
        Node(op, neg, items, where, min, max, kids) ==
            [op |-> op, neg |-> neg, items |-> items, at |-> where, min |-> min,
             max |-> max, kids |-> kids]
        In(neg, items) == Node("in", neg, items, "", 0, 0, <<>>)
        Item(k, lo, hi) == [k |-> k, lo |-> lo, hi |-> hi]
        Lit(c) == In(FALSE, {Item("range", c, c)})
        Cat(k) == In(FALSE, {Item(k, 0, 0)})
        AnyChar == Node("any", FALSE, {}, "", 0, 0, <<>>)
        At(where) == Node("at", FALSE, {}, where, 0, 0, <<>>)
        Items(kids) == Node("seq", FALSE, {}, "", 0, 0, kids)
        Alt(kids) == Node("branch", FALSE, {}, "", 0, 0, kids)
        Group(kid) == Node("subpattern", FALSE, {}, "", 0, 0, <<kid>>)
        Ahead(neg, kid) == Node("assert", neg, {}, "", 0, 0, <<kid>>)
        Rep(min, max, kid) == Node("repeat", FALSE, {}, "", min, max, <<kid>>)
        ok(node, pos, groups) ==
            [raised |-> None, node |-> node, pos |-> pos, groups |-> groups]
        fail(kind) == [raised |-> kind, node |-> AnyChar, pos |-> 0, groups |-> 0]
        \* source.getwhile(most, charset) from i: how many characters it takes
        getwhile(i, most, charset) ==
            LET stop == { k \in 0..most : k = most \/ at(i + k) \notin charset }
            IN Min(stop)
        hex(c) == CHOOSE d \in 0..15 :
                     HexDigit[d + 1] = c \/ (d >= 10 /\ Latin1[d + 56] = c)
        dec(c) == CHOOSE d \in 0..9 : DigitChar[d + 1] = c
        \* int(pattern[i : i + k], base), for a value that fits
        int(i, k, base) ==
            LET digit(c) == IF base = 16 THEN hex(c) ELSE dec(c)
                f[j \in 0..k] == IF j = 0 THEN 0 ELSE base * f[j - 1] + digit(pattern[i + j - 1])
            IN f[k]
        \* a decimal numeral without its leading zeros
        numeral(i, k) ==
            LET zeros == getwhile(i, k, {"0"})
            IN Slice(pattern, i + zeros, i + k - 1)
        less(a, b) ==
            \/ Len(a) < Len(b)
            \/ /\ Len(a) = Len(b)
               /\ \E j \in 1..Len(a) :
                     /\ \A h \in 1..(j - 1) : a[h] = b[h]
                     /\ dec(a[j]) < dec(b[j])
        count(i, k) ==
            LET digits == numeral(i, k)
            IN IF Len(digits) > 6 THEN CountCap ELSE int(i + k - Len(digits), Len(digits), 10)
        \* \x, \u, \U and \N of _escape and of _class_escape, at the
        \* backslash i
        coded(i, groups) ==
            LET c == pattern[i + 1]
                width == IF c = "x" THEN 2 ELSE IF c = "u" THEN 4 ELSE 8
                got == getwhile(i + 2, width, HEXDIGITS)
            IN IF c = "N"
               THEN IF at(i + 2) = "{" THEN fail("NotModelled") ELSE fail("error")
               ELSE IF got # width THEN fail("error")
               ELSE IF c = "U" /\ int(i + 2, 2, 16) # 0 THEN fail("error")
               ELSE IF c = "U" /\ int(i + 4, 6, 16) > 1114111 THEN fail("error")
               ELSE ok(Lit(IF c = "U" THEN int(i + 4, 6, 16) ELSE int(i + 2, width, 16)),
                       i + 2 + width, groups)
        ESCAPES(c) ==
            CASE c = "a" -> 7 [] c = "b" -> 8 [] c = "f" -> 12 [] c = "n" -> 10
              [] c = "r" -> 13 [] c = "t" -> 9 [] c = "v" -> 11 [] c = "\\" -> 92
        CATEGORY(c) ==
            CASE c = "d" -> "digit" [] c = "D" -> "not_digit" [] c = "s" -> "space"
              [] c = "S" -> "not_space" [] c = "w" -> "word" [] c = "W" -> "not_word"
        \* _class_escape for the escape at i, inside [...]
        _class_escape(i, groups) ==
            LET c == pattern[i + 1]
                octs == 1 + getwhile(i + 2, 2, OCTDIGITS)
            IN IF c \in {"a", "b", "f", "n", "r", "t", "v", "\\"}
               THEN ok(Lit(ESCAPES(c)), i + 2, groups)
               ELSE IF c \in {"d", "D", "s", "S", "w", "W"}
               THEN ok(Cat(CATEGORY(c)), i + 2, groups)
               ELSE IF c \in {"x", "u", "U", "N"} THEN coded(i, groups)
               ELSE IF c \in OCTDIGITS
               THEN IF int(i + 1, octs, 8) > 255 THEN fail("error")
                    ELSE ok(Lit(int(i + 1, octs, 8)), i + 1 + octs, groups)
               ELSE IF c \in DIGITS \/ c \in ASCIILETTERS THEN fail("error")
               ELSE ok(Lit(Ord(c)), i + 2, groups)
        \* _escape for the escape at i, outside [...]; open: the groups
        \* that are not closed yet
        _escape(i, groups, open) ==
            LET c == pattern[i + 1]
                octs == 1 + getwhile(i + 2, 2, OCTDIGITS)
                two == at(i + 2) \in DIGITS
                octal == /\ two /\ c \in OCTDIGITS /\ at(i + 2) \in OCTDIGITS
                         /\ at(i + 3) \in OCTDIGITS
                group == int(i + 1, IF two THEN 2 ELSE 1, 10)
            IN IF c \in {"A", "b", "B", "Z"}
               THEN ok(At(CASE c = "A" -> "beginning_string" [] c = "b" -> "boundary"
                            [] c = "B" -> "non_boundary" [] c = "Z" -> "end_string"),
                       i + 2, groups)
               ELSE IF c \in {"d", "D", "s", "S", "w", "W"}
               THEN ok(Cat(CATEGORY(c)), i + 2, groups)
               ELSE IF c \in {"a", "f", "n", "r", "t", "v", "\\"}
               THEN ok(Lit(ESCAPES(c)), i + 2, groups)
               ELSE IF c \in {"x", "u", "U", "N"} THEN coded(i, groups)
               ELSE IF c = "0" THEN ok(Lit(int(i + 1, octs, 8)), i + 1 + octs, groups)
               ELSE IF c \in DIGITS
               THEN IF octal
                    THEN IF int(i + 1, 3, 8) > 255 THEN fail("error")
                         ELSE ok(Lit(int(i + 1, 3, 8)), i + 4, groups)
                    ELSE IF group > groups \/ group \in open THEN fail("error")
                    ELSE fail("NotModelled")
               ELSE IF c \in ASCIILETTERS THEN fail("error")
               ELSE ok(Lit(Ord(c)), i + 2, groups)
        \* the character set that opens at i
        set(i, groups) ==
            LET negate == at(i + 1) = "^"
                code(j) ==
                    IF pattern[j] # "\\" THEN ok(Lit(Ord(pattern[j])), j + 1, groups)
                    ELSE IF j = n THEN fail("error")
                    ELSE _class_escape(j, groups)
                literal(r) == \A item \in r.node.items : item.k = "range"
                lo(r) == (CHOOSE item \in r.node.items : TRUE).lo
                RECURSIVE members(_, _)
                members(j, items) ==
                    LET range(code1, code2) ==
                            IF code2.raised # None THEN code2
                            ELSE IF ~literal(code1) \/ ~literal(code2) THEN fail("error")
                            ELSE IF lo(code2) < lo(code1) THEN fail("error")
                            ELSE members(code2.pos,
                                         items \cup {Item("range", lo(code1), lo(code2))})
                        one(code1) ==
                            IF code1.raised # None THEN code1
                            ELSE IF at(code1.pos) # "-"
                            THEN members(code1.pos, items \cup code1.node.items)
                            ELSE IF code1.pos + 1 > n THEN fail("error")
                            ELSE IF pattern[code1.pos + 1] = "]"
                            THEN ok(In(negate, items \cup code1.node.items
                                               \cup {Item("range", 45, 45)}),
                                    code1.pos + 2, groups)
                            ELSE range(code1, code(code1.pos + 1))
                    IN IF j > n THEN fail("error")
                       ELSE IF pattern[j] = "]" /\ items # {} THEN ok(In(negate, items), j + 1, groups)
                       ELSE one(code(j))
            IN members(IF negate THEN i + 2 ELSE i + 1, {})
        \* the counts of the repeat at i: [literal, raised, min, max, pos],
        \* literal when the brace at i is no repeat
        counts(i) ==
            LET C(literal, raised, min, max, pos) ==
                    [literal |-> literal, raised |-> raised, min |-> min, max |-> max,
                     pos |-> pos]
                nlo == getwhile(i + 1, n, DIGITS)
                comma == at(i + 1 + nlo) = ","
                nhi == IF comma THEN getwhile(i + 2 + nlo, n, DIGITS) ELSE nlo
                hi_at == IF comma THEN i + 2 + nlo ELSE i + 1
                close == hi_at + nhi
                lo == numeral(i + 1, nlo)
                hi == numeral(hi_at, nhi)
                huge(digits) == ~less(digits, MAXREPEAT)
                \* the tokenizer meets a backslash that ends the pattern first
                overflow == IF close + 1 = n /\ pattern[n] = "\\" THEN "error"
                            ELSE "OverflowError"
            IN IF pattern[i] = "?" THEN C(FALSE, None, 0, 1, i + 1)
               ELSE IF pattern[i] = "*" THEN C(FALSE, None, 0, -1, i + 1)
               ELSE IF pattern[i] = "+" THEN C(FALSE, None, 1, -1, i + 1)
               ELSE IF at(i + 1) = "}" \/ at(close) # "}" THEN C(TRUE, None, 0, 0, i + 1)
               ELSE IF nlo > 0 /\ huge(lo) THEN C(FALSE, overflow, 0, 0, 0)
               ELSE IF nhi > 0 /\ huge(hi) THEN C(FALSE, overflow, 0, 0, 0)
               ELSE IF nhi > 0 /\ less(hi, lo) THEN C(FALSE, "error", 0, 0, 0)
               ELSE C(FALSE, None, IF nlo > 0 THEN count(i + 1, nlo) ELSE 0,
                      IF nhi > 0 THEN count(hi_at, nhi) ELSE -1, close + 1)
        \* the end of the comment (?#...) whose text starts at j: the
        \* position after its ")", 0 when there is none
        RECURSIVE comment(_)
        comment(j) ==
            IF j > n THEN 0
            ELSE IF pattern[j] = "\\" THEN (IF j = n THEN 0 ELSE comment(j + 2))
            ELSE IF pattern[j] = ")" THEN j + 1
            ELSE comment(j + 1)
        RECURSIVE _parse(_, _, _, _), _parse_sub(_, _, _, _)
        \* a|b|c from i on; items: the branches parsed so far
        _parse_sub(i, groups, open, items) ==
            LET next(r) ==
                    IF r.raised # None THEN r
                    ELSE IF at(r.pos) = "|"
                    THEN _parse_sub(r.pos + 1, r.groups, open, Append(items, r.node))
                    ELSE ok(Alt(Append(items, r.node)), r.pos, r.groups)
            IN next(_parse(i, groups, open, <<>>))
        \* the items of one branch from i on; subpattern: those parsed so far
        _parse(i, groups, open, subpattern) ==
            LET this == pattern[i]
                append(r) ==
                    IF r.raised # None THEN r
                    ELSE _parse(r.pos, r.groups, open, Append(subpattern, r.node))
                closed(r, node) ==
                    IF r.raised # None THEN r
                    ELSE IF at(r.pos) # ")" THEN fail("error")
                    ELSE append(ok(node, r.pos + 1, r.groups))
                subpattern_(r) == closed(r, Group(r.node))
                ahead(r, neg) == closed(r, Ahead(neg, r.node))
                last == subpattern[Len(subpattern)]
                repeat(c) ==
                    IF c.literal THEN append(ok(Lit(123), i + 1, groups))
                    ELSE IF c.raised # None THEN fail(c.raised)
                    ELSE IF subpattern = <<>> \/ last.op = "at" THEN fail("error")
                    ELSE IF last.op = "repeat" THEN fail("error")
                    ELSE IF at(c.pos) = "+" THEN fail("NotModelled")
                    ELSE _parse(IF at(c.pos) = "?" THEN c.pos + 1 ELSE c.pos, groups, open,
                                [subpattern EXCEPT ![Len(subpattern)] = Rep(c.min, c.max, last)])
                extension(char) ==
                    IF char = None THEN fail("error")
                    ELSE IF char = "P"
                    THEN IF at(i + 3) \in {"<", "="} THEN fail("NotModelled") ELSE fail("error")
                    ELSE IF char = ":"
                    THEN subpattern_(_parse_sub(i + 3, groups, open, <<>>))
                    ELSE IF char = "#"
                    THEN IF comment(i + 3) = 0 THEN fail("error")
                         ELSE _parse(comment(i + 3), groups, open, subpattern)
                    ELSE IF char \in {"=", "!"}
                    THEN ahead(_parse_sub(i + 3, groups, open, <<>>), char = "!")
                    ELSE IF char = "<"
                    THEN IF at(i + 3) \in {"=", "!"} THEN fail("NotModelled") ELSE fail("error")
                    ELSE IF char \in {"(", ">", "-"} \cup FLAGS THEN fail("NotModelled")
                    ELSE fail("error")
            IN IF i > n \/ this \in {"|", ")"} THEN ok(Items(subpattern), i, groups)
               ELSE IF this = "\\"
               THEN IF i = n THEN fail("error") ELSE append(_escape(i, groups, open))
               ELSE IF this = "[" THEN append(set(i, groups))
               ELSE IF this \in {"*", "+", "?", "{"} THEN repeat(counts(i))
               ELSE IF this = "." THEN append(ok(AnyChar, i + 1, groups))
               ELSE IF this = "(" /\ at(i + 1) = "?" THEN extension(at(i + 2))
               ELSE IF this = "("
               THEN subpattern_(_parse_sub(i + 1, groups + 1, open \cup {groups + 1}, <<>>))
               ELSE IF this = "^" THEN append(ok(At("beginning"), i + 1, groups))
               ELSE IF this = "$" THEN append(ok(At("end"), i + 1, groups))
               ELSE append(ok(Lit(Ord(this)), i + 1, groups))
        parsed(r) ==
            IF r.raised # None THEN [raised |-> r.raised, pattern |-> AnyChar]
            ELSE IF r.pos <= n THEN [raised |-> "error", pattern |-> AnyChar]
            ELSE [raised |-> None, pattern |-> r.node]
    IN parsed(_parse_sub(1, 0, {}, <<>>))

\* rx.search(text) for a compiled pattern: whether the pattern matches
\* somewhere in the text.  A position is the number of characters before
\* it; ends(node, S) are the positions where a match of the node that
\* starts at a position of S can end.
re_search(rx, text) ==
    LET n == Len(text)
        ord == [k \in 1..n |-> Ord(text[k])]
        within(table, c) == \E k \in 1..Len(table) : table[k][1] <= c /\ c <= table[k][2]
        \* Py_UNICODE_ISDECIMAL, Py_UNICODE_ISSPACE, Py_UNICODE_ISALNUM
        \* above U+00FF
        DECIMAL ==
            <<
              <<1632, 1641>>, <<1776, 1785>>, <<1984, 1993>>, <<2406, 2415>>, <<2534, 2543>>,
              <<2662, 2671>>, <<2790, 2799>>, <<2918, 2927>>, <<3046, 3055>>, <<3174, 3183>>,
              <<3302, 3311>>, <<3430, 3439>>, <<3558, 3567>>, <<3664, 3673>>, <<3792, 3801>>,
              <<3872, 3881>>, <<4160, 4169>>, <<4240, 4249>>, <<6112, 6121>>, <<6160, 6169>>,
              <<6470, 6479>>, <<6608, 6617>>, <<6784, 6793>>, <<6800, 6809>>, <<6992, 7001>>,
              <<7088, 7097>>, <<7232, 7241>>, <<7248, 7257>>, <<42528, 42537>>,
              <<43216, 43225>>, <<43264, 43273>>, <<43472, 43481>>, <<43504, 43513>>,
              <<43600, 43609>>, <<44016, 44025>>, <<65296, 65305>>, <<66720, 66729>>,
              <<68912, 68921>>, <<69734, 69743>>, <<69872, 69881>>, <<69942, 69951>>,
              <<70096, 70105>>, <<70384, 70393>>, <<70736, 70745>>, <<70864, 70873>>,
              <<71248, 71257>>, <<71360, 71369>>, <<71472, 71481>>, <<71904, 71913>>,
              <<72016, 72025>>, <<72784, 72793>>, <<73040, 73049>>, <<73120, 73129>>,
              <<92768, 92777>>, <<92864, 92873>>, <<93008, 93017>>, <<120782, 120831>>,
              <<123200, 123209>>, <<123632, 123641>>, <<125264, 125273>>, <<130032, 130041>> >>
        SPACE ==
            <<
              <<5760, 5760>>, <<8192, 8202>>, <<8232, 8233>>, <<8239, 8239>>, <<8287, 8287>>,
              <<12288, 12288>> >>
        ALNUM ==
            <<
              <<256, 705>>, <<710, 721>>, <<736, 740>>, <<748, 748>>, <<750, 750>>,
              <<880, 884>>, <<886, 887>>, <<890, 893>>, <<895, 895>>, <<902, 902>>,
              <<904, 906>>, <<908, 908>>, <<910, 929>>, <<931, 1013>>, <<1015, 1153>>,
              <<1162, 1327>>, <<1329, 1366>>, <<1369, 1369>>, <<1376, 1416>>, <<1488, 1514>>,
              <<1519, 1522>>, <<1568, 1610>>, <<1632, 1641>>, <<1646, 1647>>, <<1649, 1747>>,
              <<1749, 1749>>, <<1765, 1766>>, <<1774, 1788>>, <<1791, 1791>>, <<1808, 1808>>,
              <<1810, 1839>>, <<1869, 1957>>, <<1969, 1969>>, <<1984, 2026>>, <<2036, 2037>>,
              <<2042, 2042>>, <<2048, 2069>>, <<2074, 2074>>, <<2084, 2084>>, <<2088, 2088>>,
              <<2112, 2136>>, <<2144, 2154>>, <<2160, 2183>>, <<2185, 2190>>, <<2208, 2249>>,
              <<2308, 2361>>, <<2365, 2365>>, <<2384, 2384>>, <<2392, 2401>>, <<2406, 2415>>,
              <<2417, 2432>>, <<2437, 2444>>, <<2447, 2448>>, <<2451, 2472>>, <<2474, 2480>>,
              <<2482, 2482>>, <<2486, 2489>>, <<2493, 2493>>, <<2510, 2510>>, <<2524, 2525>>,
              <<2527, 2529>>, <<2534, 2545>>, <<2548, 2553>>, <<2556, 2556>>, <<2565, 2570>>,
              <<2575, 2576>>, <<2579, 2600>>, <<2602, 2608>>, <<2610, 2611>>, <<2613, 2614>>,
              <<2616, 2617>>, <<2649, 2652>>, <<2654, 2654>>, <<2662, 2671>>, <<2674, 2676>>,
              <<2693, 2701>>, <<2703, 2705>>, <<2707, 2728>>, <<2730, 2736>>, <<2738, 2739>>,
              <<2741, 2745>>, <<2749, 2749>>, <<2768, 2768>>, <<2784, 2785>>, <<2790, 2799>>,
              <<2809, 2809>>, <<2821, 2828>>, <<2831, 2832>>, <<2835, 2856>>, <<2858, 2864>>,
              <<2866, 2867>>, <<2869, 2873>>, <<2877, 2877>>, <<2908, 2909>>, <<2911, 2913>>,
              <<2918, 2927>>, <<2929, 2935>>, <<2947, 2947>>, <<2949, 2954>>, <<2958, 2960>>,
              <<2962, 2965>>, <<2969, 2970>>, <<2972, 2972>>, <<2974, 2975>>, <<2979, 2980>>,
              <<2984, 2986>>, <<2990, 3001>>, <<3024, 3024>>, <<3046, 3058>>, <<3077, 3084>>,
              <<3086, 3088>>, <<3090, 3112>>, <<3114, 3129>>, <<3133, 3133>>, <<3160, 3162>>,
              <<3165, 3165>>, <<3168, 3169>>, <<3174, 3183>>, <<3192, 3198>>, <<3200, 3200>>,
              <<3205, 3212>>, <<3214, 3216>>, <<3218, 3240>>, <<3242, 3251>>, <<3253, 3257>>,
              <<3261, 3261>>, <<3293, 3294>>, <<3296, 3297>>, <<3302, 3311>>, <<3313, 3314>>,
              <<3332, 3340>>, <<3342, 3344>>, <<3346, 3386>>, <<3389, 3389>>, <<3406, 3406>>,
              <<3412, 3414>>, <<3416, 3425>>, <<3430, 3448>>, <<3450, 3455>>, <<3461, 3478>>,
              <<3482, 3505>>, <<3507, 3515>>, <<3517, 3517>>, <<3520, 3526>>, <<3558, 3567>>,
              <<3585, 3632>>, <<3634, 3635>>, <<3648, 3654>>, <<3664, 3673>>, <<3713, 3714>>,
              <<3716, 3716>>, <<3718, 3722>>, <<3724, 3747>>, <<3749, 3749>>, <<3751, 3760>>,
              <<3762, 3763>>, <<3773, 3773>>, <<3776, 3780>>, <<3782, 3782>>, <<3792, 3801>>,
              <<3804, 3807>>, <<3840, 3840>>, <<3872, 3891>>, <<3904, 3911>>, <<3913, 3948>>,
              <<3976, 3980>>, <<4096, 4138>>, <<4159, 4169>>, <<4176, 4181>>, <<4186, 4189>>,
              <<4193, 4193>>, <<4197, 4198>>, <<4206, 4208>>, <<4213, 4225>>, <<4238, 4238>>,
              <<4240, 4249>>, <<4256, 4293>>, <<4295, 4295>>, <<4301, 4301>>, <<4304, 4346>>,
              <<4348, 4680>>, <<4682, 4685>>, <<4688, 4694>>, <<4696, 4696>>, <<4698, 4701>>,
              <<4704, 4744>>, <<4746, 4749>>, <<4752, 4784>>, <<4786, 4789>>, <<4792, 4798>>,
              <<4800, 4800>>, <<4802, 4805>>, <<4808, 4822>>, <<4824, 4880>>, <<4882, 4885>>,
              <<4888, 4954>>, <<4969, 4988>>, <<4992, 5007>>, <<5024, 5109>>, <<5112, 5117>>,
              <<5121, 5740>>, <<5743, 5759>>, <<5761, 5786>>, <<5792, 5866>>, <<5870, 5880>>,
              <<5888, 5905>>, <<5919, 5937>>, <<5952, 5969>>, <<5984, 5996>>, <<5998, 6000>>,
              <<6016, 6067>>, <<6103, 6103>>, <<6108, 6108>>, <<6112, 6121>>, <<6128, 6137>>,
              <<6160, 6169>>, <<6176, 6264>>, <<6272, 6276>>, <<6279, 6312>>, <<6314, 6314>>,
              <<6320, 6389>>, <<6400, 6430>>, <<6470, 6509>>, <<6512, 6516>>, <<6528, 6571>>,
              <<6576, 6601>>, <<6608, 6618>>, <<6656, 6678>>, <<6688, 6740>>, <<6784, 6793>>,
              <<6800, 6809>>, <<6823, 6823>>, <<6917, 6963>>, <<6981, 6988>>, <<6992, 7001>>,
              <<7043, 7072>>, <<7086, 7141>>, <<7168, 7203>>, <<7232, 7241>>, <<7245, 7293>>,
              <<7296, 7304>>, <<7312, 7354>>, <<7357, 7359>>, <<7401, 7404>>, <<7406, 7411>>,
              <<7413, 7414>>, <<7418, 7418>>, <<7424, 7615>>, <<7680, 7957>>, <<7960, 7965>>,
              <<7968, 8005>>, <<8008, 8013>>, <<8016, 8023>>, <<8025, 8025>>, <<8027, 8027>>,
              <<8029, 8029>>, <<8031, 8061>>, <<8064, 8116>>, <<8118, 8124>>, <<8126, 8126>>,
              <<8130, 8132>>, <<8134, 8140>>, <<8144, 8147>>, <<8150, 8155>>, <<8160, 8172>>,
              <<8178, 8180>>, <<8182, 8188>>, <<8304, 8305>>, <<8308, 8313>>, <<8319, 8329>>,
              <<8336, 8348>>, <<8450, 8450>>, <<8455, 8455>>, <<8458, 8467>>, <<8469, 8469>>,
              <<8473, 8477>>, <<8484, 8484>>, <<8486, 8486>>, <<8488, 8488>>, <<8490, 8493>>,
              <<8495, 8505>>, <<8508, 8511>>, <<8517, 8521>>, <<8526, 8526>>, <<8528, 8585>>,
              <<9312, 9371>>, <<9450, 9471>>, <<10102, 10131>>, <<11264, 11492>>,
              <<11499, 11502>>, <<11506, 11507>>, <<11517, 11517>>, <<11520, 11557>>,
              <<11559, 11559>>, <<11565, 11565>>, <<11568, 11623>>, <<11631, 11631>>,
              <<11648, 11670>>, <<11680, 11686>>, <<11688, 11694>>, <<11696, 11702>>,
              <<11704, 11710>>, <<11712, 11718>>, <<11720, 11726>>, <<11728, 11734>>,
              <<11736, 11742>>, <<11823, 11823>>, <<12293, 12295>>, <<12321, 12329>>,
              <<12337, 12341>>, <<12344, 12348>>, <<12353, 12438>>, <<12445, 12447>>,
              <<12449, 12538>>, <<12540, 12543>>, <<12549, 12591>>, <<12593, 12686>>,
              <<12690, 12693>>, <<12704, 12735>>, <<12784, 12799>>, <<12832, 12841>>,
              <<12872, 12879>>, <<12881, 12895>>, <<12928, 12937>>, <<12977, 12991>>,
              <<13312, 19903>>, <<19968, 42124>>, <<42192, 42237>>, <<42240, 42508>>,
              <<42512, 42539>>, <<42560, 42606>>, <<42623, 42653>>, <<42656, 42735>>,
              <<42775, 42783>>, <<42786, 42888>>, <<42891, 42954>>, <<42960, 42961>>,
              <<42963, 42963>>, <<42965, 42969>>, <<42994, 43009>>, <<43011, 43013>>,
              <<43015, 43018>>, <<43020, 43042>>, <<43056, 43061>>, <<43072, 43123>>,
              <<43138, 43187>>, <<43216, 43225>>, <<43250, 43255>>, <<43259, 43259>>,
              <<43261, 43262>>, <<43264, 43301>>, <<43312, 43334>>, <<43360, 43388>>,
              <<43396, 43442>>, <<43471, 43481>>, <<43488, 43492>>, <<43494, 43518>>,
              <<43520, 43560>>, <<43584, 43586>>, <<43588, 43595>>, <<43600, 43609>>,
              <<43616, 43638>>, <<43642, 43642>>, <<43646, 43695>>, <<43697, 43697>>,
              <<43701, 43702>>, <<43705, 43709>>, <<43712, 43712>>, <<43714, 43714>>,
              <<43739, 43741>>, <<43744, 43754>>, <<43762, 43764>>, <<43777, 43782>>,
              <<43785, 43790>>, <<43793, 43798>>, <<43808, 43814>>, <<43816, 43822>>,
              <<43824, 43866>>, <<43868, 43881>>, <<43888, 44002>>, <<44016, 44025>>,
              <<44032, 55203>>, <<55216, 55238>>, <<55243, 55291>>, <<63744, 64109>>,
              <<64112, 64217>>, <<64256, 64262>>, <<64275, 64279>>, <<64285, 64285>>,
              <<64287, 64296>>, <<64298, 64310>>, <<64312, 64316>>, <<64318, 64318>>,
              <<64320, 64321>>, <<64323, 64324>>, <<64326, 64433>>, <<64467, 64829>>,
              <<64848, 64911>>, <<64914, 64967>>, <<65008, 65019>>, <<65136, 65140>>,
              <<65142, 65276>>, <<65296, 65305>>, <<65313, 65338>>, <<65345, 65370>>,
              <<65382, 65470>>, <<65474, 65479>>, <<65482, 65487>>, <<65490, 65495>>,
              <<65498, 65500>>, <<65536, 65547>>, <<65549, 65574>>, <<65576, 65594>>,
              <<65596, 65597>>, <<65599, 65613>>, <<65616, 65629>>, <<65664, 65786>>,
              <<65799, 65843>>, <<65856, 65912>>, <<65930, 65931>>, <<66176, 66204>>,
              <<66208, 66256>>, <<66273, 66299>>, <<66304, 66339>>, <<66349, 66378>>,
              <<66384, 66421>>, <<66432, 66461>>, <<66464, 66499>>, <<66504, 66511>>,
              <<66513, 66517>>, <<66560, 66717>>, <<66720, 66729>>, <<66736, 66771>>,
              <<66776, 66811>>, <<66816, 66855>>, <<66864, 66915>>, <<66928, 66938>>,
              <<66940, 66954>>, <<66956, 66962>>, <<66964, 66965>>, <<66967, 66977>>,
              <<66979, 66993>>, <<66995, 67001>>, <<67003, 67004>>, <<67072, 67382>>,
              <<67392, 67413>>, <<67424, 67431>>, <<67456, 67461>>, <<67463, 67504>>,
              <<67506, 67514>>, <<67584, 67589>>, <<67592, 67592>>, <<67594, 67637>>,
              <<67639, 67640>>, <<67644, 67644>>, <<67647, 67669>>, <<67672, 67702>>,
              <<67705, 67742>>, <<67751, 67759>>, <<67808, 67826>>, <<67828, 67829>>,
              <<67835, 67867>>, <<67872, 67897>>, <<67968, 68023>>, <<68028, 68047>>,
              <<68050, 68096>>, <<68112, 68115>>, <<68117, 68119>>, <<68121, 68149>>,
              <<68160, 68168>>, <<68192, 68222>>, <<68224, 68255>>, <<68288, 68295>>,
              <<68297, 68324>>, <<68331, 68335>>, <<68352, 68405>>, <<68416, 68437>>,
              <<68440, 68466>>, <<68472, 68497>>, <<68521, 68527>>, <<68608, 68680>>,
              <<68736, 68786>>, <<68800, 68850>>, <<68858, 68899>>, <<68912, 68921>>,
              <<69216, 69246>>, <<69248, 69289>>, <<69296, 69297>>, <<69376, 69415>>,
              <<69424, 69445>>, <<69457, 69460>>, <<69488, 69505>>, <<69552, 69579>>,
              <<69600, 69622>>, <<69635, 69687>>, <<69714, 69743>>, <<69745, 69746>>,
              <<69749, 69749>>, <<69763, 69807>>, <<69840, 69864>>, <<69872, 69881>>,
              <<69891, 69926>>, <<69942, 69951>>, <<69956, 69956>>, <<69959, 69959>>,
              <<69968, 70002>>, <<70006, 70006>>, <<70019, 70066>>, <<70081, 70084>>,
              <<70096, 70106>>, <<70108, 70108>>, <<70113, 70132>>, <<70144, 70161>>,
              <<70163, 70187>>, <<70272, 70278>>, <<70280, 70280>>, <<70282, 70285>>,
              <<70287, 70301>>, <<70303, 70312>>, <<70320, 70366>>, <<70384, 70393>>,
              <<70405, 70412>>, <<70415, 70416>>, <<70419, 70440>>, <<70442, 70448>>,
              <<70450, 70451>>, <<70453, 70457>>, <<70461, 70461>>, <<70480, 70480>>,
              <<70493, 70497>>, <<70656, 70708>>, <<70727, 70730>>, <<70736, 70745>>,
              <<70751, 70753>>, <<70784, 70831>>, <<70852, 70853>>, <<70855, 70855>>,
              <<70864, 70873>>, <<71040, 71086>>, <<71128, 71131>>, <<71168, 71215>>,
              <<71236, 71236>>, <<71248, 71257>>, <<71296, 71338>>, <<71352, 71352>>,
              <<71360, 71369>>, <<71424, 71450>>, <<71472, 71483>>, <<71488, 71494>>,
              <<71680, 71723>>, <<71840, 71922>>, <<71935, 71942>>, <<71945, 71945>>,
              <<71948, 71955>>, <<71957, 71958>>, <<71960, 71983>>, <<71999, 71999>>,
              <<72001, 72001>>, <<72016, 72025>>, <<72096, 72103>>, <<72106, 72144>>,
              <<72161, 72161>>, <<72163, 72163>>, <<72192, 72192>>, <<72203, 72242>>,
              <<72250, 72250>>, <<72272, 72272>>, <<72284, 72329>>, <<72349, 72349>>,
              <<72368, 72440>>, <<72704, 72712>>, <<72714, 72750>>, <<72768, 72768>>,
              <<72784, 72812>>, <<72818, 72847>>, <<72960, 72966>>, <<72968, 72969>>,
              <<72971, 73008>>, <<73030, 73030>>, <<73040, 73049>>, <<73056, 73061>>,
              <<73063, 73064>>, <<73066, 73097>>, <<73112, 73112>>, <<73120, 73129>>,
              <<73440, 73458>>, <<73648, 73648>>, <<73664, 73684>>, <<73728, 74649>>,
              <<74752, 74862>>, <<74880, 75075>>, <<77712, 77808>>, <<77824, 78894>>,
              <<82944, 83526>>, <<92160, 92728>>, <<92736, 92766>>, <<92768, 92777>>,
              <<92784, 92862>>, <<92864, 92873>>, <<92880, 92909>>, <<92928, 92975>>,
              <<92992, 92995>>, <<93008, 93017>>, <<93019, 93025>>, <<93027, 93047>>,
              <<93053, 93071>>, <<93760, 93846>>, <<93952, 94026>>, <<94032, 94032>>,
              <<94099, 94111>>, <<94176, 94177>>, <<94179, 94179>>, <<94208, 100343>>,
              <<100352, 101589>>, <<101632, 101640>>, <<110576, 110579>>, <<110581, 110587>>,
              <<110589, 110590>>, <<110592, 110882>>, <<110928, 110930>>, <<110948, 110951>>,
              <<110960, 111355>>, <<113664, 113770>>, <<113776, 113788>>, <<113792, 113800>>,
              <<113808, 113817>>, <<119520, 119539>>, <<119648, 119672>>, <<119808, 119892>>,
              <<119894, 119964>>, <<119966, 119967>>, <<119970, 119970>>, <<119973, 119974>>,
              <<119977, 119980>>, <<119982, 119993>>, <<119995, 119995>>, <<119997, 120003>>,
              <<120005, 120069>>, <<120071, 120074>>, <<120077, 120084>>, <<120086, 120092>>,
              <<120094, 120121>>, <<120123, 120126>>, <<120128, 120132>>, <<120134, 120134>>,
              <<120138, 120144>>, <<120146, 120485>>, <<120488, 120512>>, <<120514, 120538>>,
              <<120540, 120570>>, <<120572, 120596>>, <<120598, 120628>>, <<120630, 120654>>,
              <<120656, 120686>>, <<120688, 120712>>, <<120714, 120744>>, <<120746, 120770>>,
              <<120772, 120779>>, <<120782, 120831>>, <<122624, 122654>>, <<123136, 123180>>,
              <<123191, 123197>>, <<123200, 123209>>, <<123214, 123214>>, <<123536, 123565>>,
              <<123584, 123627>>, <<123632, 123641>>, <<124896, 124902>>, <<124904, 124907>>,
              <<124909, 124910>>, <<124912, 124926>>, <<124928, 125124>>, <<125127, 125135>>,
              <<125184, 125251>>, <<125259, 125259>>, <<125264, 125273>>, <<126065, 126123>>,
              <<126125, 126127>>, <<126129, 126132>>, <<126209, 126253>>, <<126255, 126269>>,
              <<126464, 126467>>, <<126469, 126495>>, <<126497, 126498>>, <<126500, 126500>>,
              <<126503, 126503>>, <<126505, 126514>>, <<126516, 126519>>, <<126521, 126521>>,
              <<126523, 126523>>, <<126530, 126530>>, <<126535, 126535>>, <<126537, 126537>>,
              <<126539, 126539>>, <<126541, 126543>>, <<126545, 126546>>, <<126548, 126548>>,
              <<126551, 126551>>, <<126553, 126553>>, <<126555, 126555>>, <<126557, 126557>>,
              <<126559, 126559>>, <<126561, 126562>>, <<126564, 126564>>, <<126567, 126570>>,
              <<126572, 126578>>, <<126580, 126583>>, <<126585, 126588>>, <<126590, 126590>>,
              <<126592, 126601>>, <<126603, 126619>>, <<126625, 126627>>, <<126629, 126633>>,
              <<126635, 126651>>, <<127232, 127244>>, <<130032, 130041>>, <<131072, 173791>>,
              <<173824, 177976>>, <<177984, 178205>>, <<178208, 183969>>, <<183984, 191456>>,
              <<194560, 195101>>, <<196608, 201546>> >>
        digit(c) == IF c <= 255 THEN c \in 48..57 ELSE within(DECIMAL, c)
        space(c) == IF c <= 255 THEN c \in ((9..13) \cup (28..32) \cup {133} \cup {160}) ELSE within(SPACE, c)
        word(c) == IF c <= 255 THEN c \in {95} \cup ((48..57) \cup (65..90) \cup (97..122) \cup {170} \cup (178..179) \cup {181} \cup (185..186) \cup (188..190) \cup (192..214) \cup (216..246) \cup (248..255))
                   ELSE within(ALNUM, c)
        member(item, c) ==
            CASE item.k = "range" -> item.lo <= c /\ c <= item.hi
              [] item.k = "digit" -> digit(c)
              [] item.k = "not_digit" -> ~digit(c)
              [] item.k = "space" -> space(c)
              [] item.k = "not_space" -> ~space(c)
              [] item.k = "word" -> word(c)
              [] item.k = "not_word" -> ~word(c)
        before(p) == p > 0 /\ word(ord[p])
        after(p) == p < n /\ word(ord[p + 1])
        here(where, p) ==
            CASE where \in {"beginning", "beginning_string"} -> p = 0
              [] where = "end" -> p = n \/ (p = n - 1 /\ text[n] = "\n")
              [] where = "end_string" -> p = n
              [] where = "boundary" -> n > 0 /\ before(p) # after(p)
              [] where = "non_boundary" -> n > 0 /\ before(p) = after(p)
        RECURSIVE ends(_, _)
        ends(node, S) ==
            LET kids == node.kids
                all[k \in 0..Len(kids)] == IF k = 0 THEN S ELSE ends(kids[k], all[k - 1])
                \* after k rounds of the repeated item, which no longer
                \* changes from round n + 1 on
                round[k \in 0..(n + 1)] == IF k = 0 THEN S ELSE ends(kids[1], round[k - 1])
                least == IF node.min > n + 1 THEN n + 1 ELSE node.min
                most == IF node.max = -1 \/ node.max > n + 1 THEN n + 1 ELSE node.max
            IN IF S = {} THEN {}
               ELSE CASE node.op = "in" ->
                         { p + 1 : p \in { q \in S : /\ q < n
                                                     /\ (\E item \in node.items :
                                                            member(item, ord[q + 1]))
                                                        # node.neg } }
                      [] node.op = "any" -> { p + 1 : p \in { q \in S : q < n /\ text[q + 1] # "\n" } }
                      [] node.op = "at" -> { p \in S : here(node.at, p) }
                      [] node.op = "seq" -> all[Len(kids)]
                      [] node.op = "branch" -> UNION { ends(kids[k], S) : k \in 1..Len(kids) }
                      [] node.op = "subpattern" -> ends(kids[1], S)
                      [] node.op = "assert" -> { p \in S : (ends(kids[1], {p}) # {}) # node.neg }
                      [] node.op = "repeat" -> UNION { round[k] : k \in least..most }
    IN ends(rx, 0..n) # {}

\* the pattern is compiled before a file is looked for; a file that
\* cannot be read is passed over
_file_contains_regex(tree, rel, pattern) ==
    LET searched(rx) ==
            IF rx.raised # None THEN [raised |-> rx.raised, ret |-> FALSE]
            ELSE [raised |-> None,
                  ret |-> \E p \in _iter_files_under(tree, rel) :
                             tree.at[p].readable /\ re_search(rx.pattern, tree.at[p].text)]
    IN searched(re_compile(pattern))

\* tomllib is there (Python 3.11); a file that cannot be read or decoded
\* is reported like one that is no TOML
_toml_has_path(tree, rel, dotted) ==
    LET parts == SplitOn(dotted, ".")
        has(data) ==
            \A k \in 1..Len(parts) :
                /\ k > 1 => data[SubSeq(parts, 1, k - 1)] = "table"
                /\ SubSeq(parts, 1, k) \in DOMAIN data
        loaded(file) ==
            IF ~file.readable \/ ~file.utf8 \/ ~file.toml_ok
            THEN <<FALSE, "Could not parse TOML">>
            ELSE <<has(file.toml), "">>
    IN IF ~_exists_kind(tree, rel, "file") THEN <<FALSE, "">>
       ELSE loaded(tree.at[_target(tree, rel).path])

_matches_deletion(rule_path, rule_kind, deleted_path) ==
    LET RECURSIVE rstrip(_)
        rstrip(t) == IF t # <<>> /\ t[Len(t)] = "/"
                     THEN rstrip(SubSeq(t, 1, Len(t) - 1)) ELSE t
    IN  IF rule_kind # "dir" THEN deleted_path = rule_path
        ELSE \/ StartsWith(deleted_path, rstrip(rule_path) \o <<"/">>)
             \/ deleted_path = rstrip(rule_path)

\* ret is the list of warnings, each [rule, message] with the message as
\* <<what, about>>
_evaluate_rules(tree, rules, check_missing, deleted) ==
    LET W(rule, what, about) == [rule |-> rule, message |-> <<what, about>>]
        is_deleted(rule) ==
            \E deleted_path \in deleted :
                _matches_deletion(rule.path,
                                  IF rule.type = "exists" THEN rule.kind ELSE "file",
                                  deleted_path)
        deletions == SelectSeq(rules, is_deleted)
        first == [i \in 1..Len(deletions) |->
                     W(deletions[i], "Deleted", deletions[i].path)]
        toml(rule, r) ==
            IF r[1] THEN <<>>
            ELSE (IF r[2] # "" THEN <<W(rule, "TOML parse issue", rule.path)>> ELSE <<>>)
                 \o <<W(rule, "Check failed: missing in", rule.path)>>
        pattern(rule, found) ==
            IF found.raised # None THEN [raised |-> found.raised, ret |-> <<>>]
            ELSE [raised |-> None,
                  ret |-> IF found.ret THEN <<>>
                          ELSE <<W(rule, "Check failed: expected pattern in", rule.path)>>]
        check(rule) ==
            CASE rule.type = "exists" ->
                    [raised |-> None,
                     ret |-> IF check_missing /\ ~_exists_kind(tree, rule.path, rule.kind)
                             THEN <<W(rule, "Missing", rule.path)>> ELSE <<>>]
              [] rule.type = "regex_present" ->
                    IF ~_exists_kind(tree, rule.path, "any")
                    THEN [raised |-> None,
                          ret |-> IF check_missing THEN <<W(rule, "Missing", rule.path)>>
                                  ELSE <<>>]
                    ELSE IF rule.regex = <<>> THEN [raised |-> None, ret |-> <<>>]
                    ELSE pattern(rule, _file_contains_regex(tree, rule.path, rule.regex))
              [] rule.type = "toml_has_path" ->
                    [raised |-> None,
                     ret |-> IF ~_exists_kind(tree, rule.path, "file") THEN <<>>
                             ELSE toml(rule, _toml_has_path(tree, rule.path, rule.toml_path))]
              [] OTHER ->
                    [raised |-> None, ret |-> <<W(rule, "Unknown rule type", rule.path)>>]
        gated(rule, gate) ==
            IF gate.raised # None THEN [raised |-> gate.raised, ret |-> <<>>]
            ELSE IF ~gate.ret THEN [raised |-> None, ret |-> <<>>]
            ELSE check(rule)
        one(rule) ==
            IF rule.only_if # <<>>
            THEN gated(rule, _file_contains_regex(tree, rule.only_if[1].path,
                                                  rule.only_if[1].regex))
            ELSE check(rule)
        RECURSIVE loop(_, _)
        loop(i, warnings) ==
            IF i > Len(rules) THEN [raised |-> None, ret |-> warnings]
            ELSE LET step(r) == IF r.raised # None THEN [raised |-> r.raised, ret |-> <<>>]
                                ELSE loop(i + 1, warnings \o r.ret)
                 IN  step(one(rules[i]))
    IN  loop(1, first)

\* git is what the git executable does: [which, exec, code, lines]
_list_deleted_paths(git, staged, diff_range) ==
    LET parsed(p) ==
            IF p.raised # None THEN [raised |-> p.raised, ret |-> {}]
            ELSE IF p.ret[1] # 0 THEN [raised |-> None, ret |-> {}]
            ELSE [raised |-> None,
                  ret |-> {Strip(p.ret[2][i][2]) :
                              i \in {j \in DOMAIN p.ret[2] :
                                        /\ Len(p.ret[2][j]) = 2
                                        /\ Strip(p.ret[2][j][1]) = <<"D">>}}]
    IN  IF diff_range # Missing \/ staged
        THEN parsed(_run_git(Command(git.which, git.exec, FALSE, 1, git.code, git.lines)))
        ELSE [raised |-> None, ret |-> {}]

\* repo_doctor.main followed by `raise SystemExit(main())`; cfg is the file
\* .repo-doctor.toml: [state, rules, ignore_missing] with state "absent",
\* "invalid" (not TOML) or "ok"; no directory repo_doctor.d exists.  The
\* tree leaves .repo-doctor.toml out, so it stands for runs whose rules
\* search no directory that holds that file.
repo_doctor_main(args, tree, cfg, git) ==
    LET missing == args.missing \/ ~(args.missing \/ args.staged \/ args.diff # Missing)
        staged  == args.staged \/ ~(args.missing \/ args.staged \/ args.diff # Missing)
        _LEVEL_ORDER(level) == IF level = "warn" THEN 1 ELSE 0
        min_order == _LEVEL_ORDER(IF args.include_info THEN "info" ELSE args.min_level)
        keep(r) == /\ _LEVEL_ORDER(r.level) >= min_order
                   /\ args.category # "" => r.category = args.category
                   /\ r.path \notin cfg.ignore_missing
        done(raised, ret, warnings) ==
            [raised |-> raised, ret |-> ret, warnings |-> warnings,
             exit |-> IF raised # None THEN 1 ELSE ret]
        loaded(root, deleted, w) ==
            IF root.raised # None THEN done(root.raised, 0, <<>>)
            ELSE IF cfg.state = "invalid" THEN done("TOMLDecodeError", 0, <<>>)
            ELSE IF cfg.state = "absent" \/ cfg.rules = <<>> THEN done(None, 0, <<>>)
            ELSE IF deleted.raised # None THEN done(deleted.raised, 0, <<>>)
            ELSE IF w.raised # None THEN done(w.raised, 0, <<>>)
            ELSE done(None, 0, w.ret)
    IN  loaded(_run_git(Command(git.which, git.exec, FALSE, 1, git.code, <<>>)),
               _list_deleted_paths(git, staged, args.diff),
               _evaluate_rules(tree, SelectSeq(cfg.rules, keep), missing,
                               _list_deleted_paths(git, staged, args.diff).ret))

\* the number of rules of a .repo-doctor.toml
MaxRules == 2

RdInit ==
    /\ LkOff /\ gh = Off /\ ch = Off /\ wf = Off /\ td = Off
    /\ LET R(type, path, kind, level, category, regex, toml_path) ==
               Rule(type, path, kind, level, category, regex, toml_path, <<>>)
           rule == { R("exists", <<"R", "E", "A", "D", "M", "E", ".", "m", "d">>, "file", "warn", "", <<>>, <<>>),
                     R("exists", <<"g", "o", "n", "e", ".", "m", "d">>, "file", "warn", "ci", <<>>, <<>>),
                     R("exists", <<"d", "o", "c", "s">>, "dir", "info", "", <<>>, <<>>),
                     R("regex_present", <<"R", "E", "A", "D", "M", "E", ".", "m", "d">>, "file", "warn", "", <<"H", "e", "l", "l", "o">>, <<>>),
                     R("regex_present", <<"d", "o", "c", "s">>, "file", "warn", "ci", <<"(">>, <<>>),
                     R("toml_has_path", <<"b", "a", "d", ".", "t", "o", "m", "l">>, "file", "warn", "", <<>>, <<"t", "o", "o", "l", ".", "r", "u", "f", "f">>),
                     R("toml_has_path", <<"p", "y", "p", "r", "o", "j", "e", "c", "t", ".", "t", "o", "m", "l">>, "file", "info", "", <<>>, <<"t", "o", "o", "l", ".", "r", "u", "f", "f">>),
                     R("bogus", <<"R", "E", "A", "D", "M", "E", ".", "m", "d">>, "file", "warn", "", <<>>, <<>>),
                     Rule("exists", <<"g", "o", "n", "e", ".", "m", "d">>, "file", "warn", "", <<>>, <<>>,
                          <<[path |-> <<"d", "o", "c", "s">>, regex |-> <<"n", "o", "p", "e">>]>>) }
           rules == UNION { [1..n -> rule] : n \in 1..MaxRules }
           ok == { [state |-> "ok", rules |-> rs, ignore_missing |-> im] :
                      rs \in rules, im \in {{}, {<<"g", "o", "n", "e", ".", "m", "d">>}} }
           other == { [state |-> s, rules |-> <<>>, ignore_missing |-> {}] :
                         s \in {"absent", "invalid", "ok"} }
           gits == { [which |-> TRUE, exec |-> "ok", code |-> 1, lines |-> <<>>],
                     [which |-> TRUE, exec |-> "ok", code |-> 0,
                      lines |-> << <<<<"D">>, <<"g", "o", "n", "e", ".", "m", "d">>>> >>],
                     [which |-> TRUE, exec |-> "ok", code |-> 0,
                      lines |-> << <<<<"M">>, <<"R", "E", "A", "D", "M", "E", ".", "m", "d">>>>, <<<<"D">>, <<"d", "o", "c", "s", "/", "a", ".", "m", "d">>>>,
                                   <<<<"g", "a", "r", "b", "a", "g", "e">>>> >>],
                     [which |-> FALSE, exec |-> "ok", code |-> 0, lines |-> <<>>],
                     [which |-> TRUE, exec |-> "PermissionError", code |-> 0,
                      lines |-> <<>>] }
       IN  \E cfg \in ok \cup other, git \in gits :
              sc = [pc |-> "idle", cfg |-> cfg, git |-> git, args |-> <<>>,
                    out |-> <<>>]

\* one run of the script
RdMain ==
    /\ sc.pc = "idle"
    /\ \E missing \in BOOLEAN, staged \in BOOLEAN, diff \in {Missing, <<"H", "E", "A", "D", "~", "1">>},
          category \in {"", "ci"}, include_info \in BOOLEAN :
         LET args == [missing |-> missing, staged |-> staged, diff |-> diff,
                      category |-> category, min_level |-> "warn",
                      include_info |-> include_info]
         IN  sc' = [sc EXCEPT !.pc = "exited", !.args = args,
                              !.out = repo_doctor_main(args, RdTree, sc.cfg, sc.git)]
    /\ UNCHANGED <<lkVars, gh, ch, wf, td>>

RdNext == RdMain

SpecRepoDoctor == RdInit /\ [][RdNext]_vars

\* C17: repo_doctor never blocks: whatever the rules, the filters and the
\* state of the working tree and of git, the process exits with code 0,
\* also when warnings are reported.
C17_RepoDoctorAlwaysExitsZero ==
    (sc.pc = "exited") => sc.out.exit = 0

(***************************************************************************)
(* scripts/env_doctor.py                                                   *)
(*                                                                         *)
(* `failing` is the set of the names of the checks and tools that do not   *)
(* pass in the environment at hand (check_fn() returns (False, msg),       *)
(* shutil.which(tool) finds nothing), `raising` the set of the names of    *)
(* the checks whose function raises.  A result is [name, status, group].   *)
(***************************************************************************)
CHECKS ==
    <<"Python version", "Architecture", "Git repository", "Git user config",
      "pyproject.toml", "Virtual environment", "Editable install", "Hatch",
      "Task runner", "Pre-commit hooks">>

EXPECTED_TOOLS == <<"ruff", "mypy", "pytest", "bandit", "pre-commit", "cz", "deptry">>

OPTIONAL_TOOLS == <<"actionlint">>

optional_checks == {"Task runner", "Architecture"}

\* the results and the failure count, or the exception of the first check
\* that raises: it leaves the loop and the function
_collect_results(failing, raising, strict) ==
    LET core(name) ==
            LET passed == name \notin failing
                warn == ~passed /\ name \in optional_checks /\ ~strict
            IN  [name |-> name, group |-> "core",
                 status |-> IF warn THEN "WARN" ELSE IF passed THEN "PASS" ELSE "FAIL",
                 failed |-> ~warn /\ ~passed]
        tool(name) ==
            LET passed == name \notin failing
            IN  [name |-> name, group |-> "tools",
                 status |-> IF passed THEN "PASS" ELSE "FAIL", failed |-> ~passed]
        optional(name) ==
            LET passed == name \notin failing
            IN  [name |-> name, group |-> "optional",
                 status |-> IF passed THEN "PASS" ELSE IF strict THEN "FAIL" ELSE "WARN",
                 failed |-> ~passed /\ strict]
        all == [i \in DOMAIN CHECKS |-> core(CHECKS[i])]
               \o [i \in DOMAIN EXPECTED_TOOLS |-> tool(EXPECTED_TOOLS[i])]
               \o [i \in DOMAIN OPTIONAL_TOOLS |-> optional(OPTIONAL_TOOLS[i])]
    IN  IF \E i \in DOMAIN CHECKS : CHECKS[i] \in raising
        THEN [raised |-> "UnicodeDecodeError", results |-> <<>>, failures |-> 0]
        ELSE [raised |-> None,
              results |-> [i \in DOMAIN all |->
                              [name |-> all[i].name, status |-> all[i].status,
                               group |-> all[i].group]],
              failures |-> Cardinality({i \in DOMAIN all : all[i].failed})]

\* ret is the exit code, results the lines and summary the numbers that are
\* printed, as JSON or as text; nothing is printed when _collect_results
\* raises, and the exception leaves run_checks
run_checks(failing, raising, strict, output_json) ==
    LET c == _collect_results(failing, raising, strict)
        total == Len(c.results)
    IN  [raised |-> c.raised,
         ret |-> IF c.failures # 0 THEN 1 ELSE 0,
         results |-> c.results,
         json |-> output_json,
         summary |-> IF c.raised # None THEN [total |-> 0, passed |-> 0, failed |-> 0]
                     ELSE [total |-> total, passed |-> total - c.failures,
                           failed |-> c.failures]]

\* the number of checks and tools that fail in one environment
MaxFailing == 2

EdInit ==
    /\ LkOff /\ gh = Off /\ ch = Off /\ wf = Off /\ td = Off
    \* check_architecture always passes; check_git_user_config and
    \* check_hatch raise UnicodeDecodeError when the output of `git config`
    \* or of `hatch --version` cannot be decoded
    /\ LET names == ({CHECKS[i] : i \in DOMAIN CHECKS} \ {"Architecture"})
                    \cup {EXPECTED_TOOLS[i] : i \in DOMAIN EXPECTED_TOOLS}
                    \cup {OPTIONAL_TOOLS[i] : i \in DOMAIN OPTIONAL_TOOLS}
       IN  \E failing \in SUBSET names, raising \in SUBSET {"Git user config", "Hatch"} :
              /\ Cardinality(failing) <= MaxFailing
              /\ failing \cap raising = {}
              /\ sc = [pc |-> "idle", failing |-> failing, raising |-> raising,
                       strict |-> FALSE, out |-> <<>>, status |-> 0]

\* env_doctor as a process: sys.exit(main()), main returns run_checks(...);
\* status is the exit status, 1 when an exception ends the process with a
\* traceback
EdMain ==
    /\ sc.pc = "idle"
    /\ \E strict \in BOOLEAN, output_json \in BOOLEAN :
         LET exited(out) ==
                 [sc EXCEPT !.pc = "exited", !.strict = strict, !.out = out,
                            !.status = IF out.raised # None THEN 1 ELSE out.ret]
         IN sc' = exited(run_checks(sc.failing, sc.raising, strict, output_json))
    /\ UNCHANGED <<lkVars, gh, ch, wf, td>>

EdNext == EdMain

SpecEnvDoctor == EdInit /\ [][EdNext]_vars

\* C18: the exit code of env_doctor is 1 exactly when a non-optional check
\* or tool fails, the optional ones (the checks Task runner and
\* Architecture, the tool actionlint) counting as non-optional only in
\* strict mode; without strict mode a failing optional one is reported as
\* WARN.
C18_ExitCodeFromNonOptionalChecks ==
    (sc.pc = "exited")
    => LET optional == {"Task runner", "Architecture", "actionlint"}
           counted == IF sc.strict THEN sc.failing ELSE sc.failing \ optional
       IN  /\ sc.status = (IF counted # {} THEN 1 ELSE 0)
           /\ ~sc.strict =>
                \A name \in sc.failing \cap optional :
                    \E i \in DOMAIN sc.out.results :
                        /\ sc.out.results[i].name = name
                        /\ sc.out.results[i].status = "WARN"

\* C19: when the todo file or the archive file does not exist, a run of
\* archive_todos writes no file and creates no backup, and the process ends
\* with a non-zero exit code.
C19_MissingFileNothingWrittenExitNonZero ==
    (td.pc = "idle" /\ td.runs >= 1
     /\ (~td.last.before.todo.exists \/ ~td.last.before.archive.exists))
    => /\ td.files = td.last.before
       /\ td.last.exit # 0

\* a run with backups and without --dry-run met a todo file with a checked
\* item and no archive file
C19_Witness_ArchiveMissing ==
    /\ td.pc = "idle" /\ td.runs >= 1
    /\ td.last.before.todo.exists /\ ~td.last.before.archive.exists
    /\ _collect_completed_blocks(td.last.before.todo.content) # <<>>
    /\ ~td.last.dry_run /\ td.last.backup
    /\ td.last.exit = 1

\* the lines of `block` stand in the archive below the heading
\* "### Completed" of the section of month_header, with no other heading
\* in between
UnderCompleted(archive, block, month_header) ==
    LET ls == SplitOn(archive, "\n")
        bl == SplitOn(block, "\n")
        heading(k) == StartsWith(ls[k], <<"#">>)
    IN  \E m \in 1..Len(ls), c \in 1..Len(ls), b \in 1..Len(ls) :
           /\ m < c /\ c < b
           /\ ls[m] = month_header
           /\ ls[c] = <<"#", "#", "#", " ", "C", "o", "m", "p", "l", "e", "t", "e", "d">>
           /\ \A k \in (m + 1)..(c - 1) : ~heading(k)
           /\ \A k \in (c + 1)..(b - 1) : ~heading(k)
           /\ b + Len(bl) - 1 <= Len(ls)
           /\ \A j \in 1..Len(bl) : ls[b + j - 1] = bl[j]

\* C20: after a successful run of archive_todos without --dry-run, the todo
\* file holds no completed item any more and holds its unchecked items as
\* before, and every completed block stands in the archive under the
\* "### Completed" heading of the current month.
C20_SuccessfulRunMovesCompletedBlocks ==
    ( /\ td.pc = "idle" /\ td.runs >= 1
      /\ td.last.raised = None /\ td.last.exit = 0 /\ ~td.last.dry_run )
    => /\ NoCheckedItems(td.files.todo.content)
       /\ UncheckedItems(td.files.todo.content)
            = UncheckedItems(td.last.before.todo.content)
       /\ \A k \in 1..Len(td.last.blocks) :
            UnderCompleted(td.files.archive.content, td.last.blocks[k], MonthHeader)

(***************************************************************************)
(* Round trip of the protected regions                                     *)
(***************************************************************************)
\* C21: restoring the placeholders that _protect produced for a page gives
\* back exactly the page: no placeholder key is left in the text and no
\* protected text is altered.
C21_RestoreInvertsProtect ==
    (lk_pc = "protected") => _restore(lk_markdown, lk_placeholders) = lk_input

(***************************************************************************)
(* The fallback tag scan                                                   *)
(***************************************************************************)
\* the pages of tags the scan is bounded to: pages 1 to 5, up to the first
\* page that is not a list of at least PerPage tags
ScannedPages(api) ==
    LET full(p) == /\ p = GhOk(p.value) /\ p.value.t = "list"
                   /\ Len(p.value.v) >= PerPage
    IN { p \in 1..TagPages : \A q \in 1..(p - 1) : full(api.pages[q]) }

\* the tags on commit sha that page p lists
PageMatches(api, p, sha) ==
    LET listed(r) ==
            IF r = GhOk(r.value) /\ r.value.t = "list"
            THEN { r.value.v[k] : k \in 1..Len(r.value.v) } ELSE {}
    IN { tag_info.name : tag_info \in { x \in listed(api.pages[p]) : x.commit.sha = sha } }

\* the tags on commit sha in the scanned pages
ScannedMatches(api, sha) == UNION { PageMatches(api, p, sha) : p \in ScannedPages(api) }

\* _resolve_tag returned without a hint tag, or with one that is not
\* verified, and the scanned pages list a tag on the target commit
FallbackScanFinds ==
    /\ gh.pc = "done" /\ gh.fn = "_resolve_tag"
    /\ gh.out.raised = None
    /\ ~(gh.args.hint_tag # Missing
         /\ HintVerified(gh.api, gh.args.hint_tag, gh.args.sha))
    /\ ScannedMatches(gh.api, gh.args.sha) # {}

\* C22 as stated: when _resolve_tag has no hint tag, or its hint tag is not
\* verified, and the scanned pages list a tag on the target commit, it
\* returns such a tag, and of the tags on that commit in the scanned pages
\* the one it returns has the most dot-separated segments.
C22_FallbackScanFindsMostSpecificTag ==
    FallbackScanFinds
    => /\ gh.out.ret \in ScannedMatches(gh.api, gh.args.sha)
       /\ \A t \in ScannedMatches(gh.api, gh.args.sha) :
            DotCount(t) <= DotCount(gh.out.ret)

\* C22 amended: in that case _resolve_tag returns a tag on the target
\* commit from the first scanned page that lists one, of the tags on that
\* commit on that page the one with the most dot-separated segments, and it
\* requests no page after that one: tags on later pages are not compared.
C22_FallbackScanReturnsBestOfFirstMatchingPage ==
    FallbackScanFinds
    => LET first == Min({ p \in ScannedPages(gh.api) :
                            PageMatches(gh.api, p, gh.args.sha) # {} })
           requested == { gh.out.calls[n][3] :
                            n \in { m \in 1..Len(gh.out.calls) :
                                      gh.out.calls[m][2] = "/tags?per_page=100&page=" } }
       IN /\ gh.out.ret \in PageMatches(gh.api, first, gh.args.sha)
          /\ \A t \in PageMatches(gh.api, first, gh.args.sha) :
               DotCount(t) <= DotCount(gh.out.ret)
          /\ requested = 1..first

\* a hint that is not verified, a full first page that ends with v4 and
\* v4.1, and v4.1.2 on the second page: v4.1 is returned
C22_Witness_AliasesOnTwoPages ==
    /\ FallbackScanFinds
    /\ gh.args.hint_tag # Missing
    /\ Cardinality(PageMatches(gh.api, 1, gh.args.sha)) = 2
    /\ PageMatches(gh.api, 2, gh.args.sha) = {<<"v", "4", ".", "1", ".", "2">>}
    /\ gh.out.ret = <<"v", "4", ".", "1">>

\* C23: a rule whose path is among the deleted paths gets exactly one
\* warning, `Deleted`, in a run of repo_doctor: it is not reported as
\* `Missing` as well.
C23_DeletedIsNotAlsoMissing ==
    (sc.pc = "exited" /\ sc.out.raised = None)
    => \A i \in 1..Len(sc.out.warnings) :
          sc.out.warnings[i].message[1] = "Deleted"
          => /\ \A j \in 1..Len(sc.out.warnings) :
                   sc.out.warnings[j].rule = sc.out.warnings[i].rule
                   => sc.out.warnings[j].message[1] = "Deleted"
             /\ Cardinality({ j \in 1..Len(sc.out.warnings) :
                                 sc.out.warnings[j].rule = sc.out.warnings[i].rule })
                = Cardinality({ k \in 1..Len(sc.cfg.rules) :
                                   sc.cfg.rules[k] = sc.out.warnings[i].rule })

\* a version-like token: digits, after an optional "v"
VersionLike(tag) ==
    LET digits == {DigitChar[k] : k \in 1..10}
    IN \/ Len(tag) >= 1 /\ tag[1] \in digits
       \/ Len(tag) >= 2 /\ tag[1] = "v" /\ tag[2] \in digits

\* C24: the comment tag of a scanned `uses:` line is a version-like token of
\* its trailing comment or None: a comment of words only, `# Checkout code`,
\* gives no comment tag, and `# v4` gives v4.
C24_CommentTagIsVersionLike ==
    (wf.pc = "scanned")
    => \A j \in 1..Len(wf.rows) :
          wf.rows[j].comment_tag # Missing => VersionLike(wf.rows[j].comment_tag)

\* C25: upgrade_all_actions changes only the `uses:` lines of rows flagged
\* upgradable: the line of every row that is not flagged, and every other
\* line, is afterwards what it was, and when no row is flagged nothing is
\* modified and 0 is returned.  (The file is as it was scanned.)
C25_UpgradeAllChangesOnlyUpgradableLines ==
    (wf.pc = "upgraded" /\ wf.op = "upgrade_all_actions" /\ ~wf.edited)
    => /\ \A k \in 1..Len(wf.before) :
            wf.lines[k] # wf.before[k]
            => \E j \in 1..Len(wf.rows) :
                  wf.rows[j].line = k /\ wf.rows[j].upgradable = "yes"
       /\ (\A j \in 1..Len(wf.rows) : wf.rows[j].upgradable # "yes")
          => wf.lines = wf.before /\ wf.modified = 0

(***************************************************************************)
(* Independence of the three link passes                                   *)
(***************************************************************************)
\* the three substitutions applied to the masked page in the given order
PassesInOrder(order, text, page_dir, repo_url) ==
    LET f[n \in 0..Len(order)] ==
            IF n = 0 THEN text
            ELSE LkSub(order[n], f[n - 1], page_dir, repo_url, _DEFAULT_BRANCH)
    IN f[Len(order)]

\* C26: the Markdown-link, HTML-href and reference-definition passes do not
\* interact: no pass rewrites text an earlier pass produced, so the page
\* after the three passes is the same in whatever order they run.
C26_LinkPassesDoNotInteract ==
    (lk_pc = "ref_links")
    => \A order \in { <<"_LINK_RE", "_REF_LINK_RE", "_HTML_HREF_RE">>,
                      <<"_HTML_HREF_RE", "_LINK_RE", "_REF_LINK_RE">>,
                      <<"_HTML_HREF_RE", "_REF_LINK_RE", "_LINK_RE">>,
                      <<"_REF_LINK_RE", "_LINK_RE", "_HTML_HREF_RE">>,
                      <<"_REF_LINK_RE", "_HTML_HREF_RE", "_LINK_RE">> } :
          PassesInOrder(order, _protect(lk_input).text, lk_page_dir, LkRepo) = lk_markdown

\* C27: a line that upgrade_action has rewritten to the commit of the target
\* tag names the target tag in its comment: no rewritten line carries the
\* new SHA next to a comment that names another tag.
C27_UpgradedLineNamesTargetTag ==
    LET _repo_slug(parts) == parts[1] \o <<"/">> \o parts[2]
        names(new, new_sha) ==
            (new.ok /\ new.ref = new_sha.ret) => NamesTag(new.trail, wf.target)
    IN (wf.pc = "upgraded" /\ wf.op = "upgrade_action")
       => \A k \in 1..Len(wf.lines) :
             wf.lines[k] # wf.before[k]
             => names(_USES_RE(RStrip(wf.lines[k], {"\n"})),
                      _resolve_sha_for_tag(wf.api, _repo_slug(SplitOn(wf.action, "/")),
                                           wf.target))

\* C28: update_comments and upgrade_action write only onto lines that still
\* hold what the row recorded at scan time: every line a write changes was,
\* right before the write, the `uses:` line of the action and SHA of a row
\* with that line number, also when the file was edited after the scan.
C28_WritesOnlyOntoTheScannedPin ==
    LET recorded(k, old) ==
            /\ old.ok
            /\ \E j \in 1..Len(wf.rows) :
                  /\ wf.rows[j].line = k
                  /\ wf.rows[j].action = old.action
                  /\ wf.rows[j].sha = old.ref
    IN (wf.pc \in {"updated", "upgraded"}
        /\ wf.op \in {"update_comments", "upgrade_action"})
       => \A k \in 1..Len(wf.lines) :
             wf.lines[k] # wf.before[k]
             => recorded(k, _USES_RE(RStrip(wf.before[k], {"\n"})))

\* C29: comment sync converges.  When update_comments has run on rows whose
\* tags were all resolved, with the action's description found, a new scan
\* against the same answers of GitHub classifies none of the lines the sync
\* rewrote as stale (yes, missing, no-desc), and a second sync modifies no
\* line.
C29_CommentSyncConverges ==
    ( /\ wf.pc = "scanned" /\ wf.run = 2 /\ wf.exists /\ ~wf.edited
      /\ \A j \in 1..Len(wf.synced) :
           _action_description(wf.api, wf.synced[j].action).ret # Missing
      /\ \A j \in 1..Len(wf.synced) : wf.synced[j].resolved_tag # Missing )
    => /\ \A j \in 1..Len(wf.rows) :
            wf.lines[wf.rows[j].line] # wf.before[wf.rows[j].line]
            => wf.rows[j].stale = ""
       /\ update_comments(wf.api, wf.rows, wf.exists, wf.lines).modified = 0

\* C30: within one scan _resolve_tag is called at most once for each
\* action@SHA and _latest_tag at most once for each repository slug, however
\* many uses lines name them, and the rows that share an action@SHA carry
\* the same resolved tag, the rows that share a slug the same latest tag.
C30_OneRequestPerKey ==
    LET slug(r) == SplitOn(r.action, "/")[1] \o <<"/">> \o SplitOn(r.action, "/")[2]
        once(keys) == \A a, b \in 1..Len(keys) : keys[a] = keys[b] => a = b
    IN /\ (wf.pc \in {"scanned", "raised"})
          => once(wf.resolutions) /\ once(wf.lookups)
       /\ (wf.pc = "scanned")
          => \A a, b \in 1..Len(wf.rows) :
               /\ (wf.rows[a].action = wf.rows[b].action /\ wf.rows[a].sha = wf.rows[b].sha)
                  => wf.rows[a].resolved_tag = wf.rows[b].resolved_tag
               /\ slug(wf.rows[a]) = slug(wf.rows[b])
                  => wf.rows[a].latest_tag = wf.rows[b].latest_tag

\* a scan of two uses lines with the same action@SHA and different comments
\* resolved the tag once and looked the latest tag up once
C30_Witness_TwoLinesShareKey ==
    /\ wf.pc = "scanned" /\ Len(wf.rows) = 2
    /\ wf.rows[1].action = wf.rows[2].action /\ wf.rows[1].sha = wf.rows[2].sha
    /\ wf.rows[1].comment_tag # wf.rows[2].comment_tag
    /\ wf.rows[1].resolved_tag # Missing /\ wf.rows[1].latest_tag # Missing
    /\ Len(wf.resolutions) = 1 /\ Len(wf.lookups) = 1

====
